---- MODULE Spec2Model ----
(***************************************************************************)
(* Model of the Telegram schedule bot: startup (main.py), the webhook      *)
(* ingestion queue and its worker (web_server.py), webhook registration,   *)
(* and the schedule command logic with its portal fetcher                  *)
(* (main.py, itmo_schedule.py).                                            *)
(***************************************************************************)
EXTENDS Integers, Sequences, FiniteSets, TLC

\* ------------------------------------------------------------------ bounds
MaxRequests == 2      \* POST /webhook requests received in one run
NumHandlers == 2      \* HTTP request threads that can be in flight together
MaxUpdateId == 1      \* update_id values the provider uses (repeats allowed)
MaxThreads  == 2      \* worker threads created in one run

Handlers  == 1..NumHandlers
Threads   == 1..MaxThreads
UpdateIds == 1..MaxUpdateId
Deliveries == 1..MaxRequests

\* ------------------------------------------------------------- vocabulary
Cmds == {"start", "today"}
\* SCHEDULE_JSON: not set, not JSON, or a schedule document
SchedKinds == {"absent", "invalid", "classes"}
NoUpdate == [kind |-> "none", did |-> 0, uid |-> 0, cmd |-> "none"]
NoOwner == <<"free", 0>>

\* The bodies a POST /webhook request can carry: a Telegram update (a
\* non-empty JSON object), an empty JSON value ({} or null), or bytes that
\* are not JSON at all.
UpdateBody(d, u, c) == [kind |-> "update", did |-> d, uid |-> u, cmd |-> c]
EmptyBody(d) == [kind |-> "empty", did |-> d, uid |-> 0, cmd |-> "none"]
UnparsableBody(d) == [kind |-> "unparsable", did |-> d, uid |-> 0, cmd |-> "none"]
Bodies(d) ==
    {UpdateBody(d, u, c) : u \in UpdateIds, c \in Cmds}
        \cup {EmptyBody(d), UnparsableBody(d)}

VARIABLES
    entry,                \* which script is the process: main.py or web_server.py
    env,                  \* environment variables (presence / shape)
    pc,                   \* position of the main thread
    schedule_fetcher,     \* main.schedule_fetcher is not None
    is_authenticated,     \* ITMOScheduleFetcher.is_authenticated
    SCHEDULE_DATA,        \* main.SCHEDULE_DATA, by shape
    telegram_application, \* web_server.telegram_application
    processing_thread,    \* web_server.processing_thread (0 = None)
    wpc,                  \* position of each worker thread in process_updates
    cur,                  \* update_data local of each worker thread
    shutdown_event,       \* web_server.shutdown_event
    update_queue,         \* web_server.update_queue
    queue_lock,           \* holder of web_server.queue_lock
    bot_status,           \* web_server.bot_status (is_running, webhook_set)
    hpc,                  \* position of each HTTP request thread in webhook()
    hbody,                \* request body each HTTP thread works on
    resp,                 \* HTTP status each HTTP thread is returning (0 = none)
    nreq,                 \* requests received so far
    accepted,             \* history: updates in the order they were appended
    dispatched,           \* history: updates in the order they were dispatched
    failed,               \* history: deliveries whose dispatch raised
    discarded,            \* history: deliveries popped but never dispatched
    afterStop,            \* history: dispatches begun after the shutdown flag was set
    regResult,            \* history: whether the provider answered setWebhook with ok
    fetchRes,             \* history: what the fetcher returned to the last schedule command
    reply                 \* history: the last schedule reply sent to the chat

\* state of the components that are specified on their own below
VARIABLES
    fpc,                  \* fetcher: position inside authenticate / get_schedule_for_date
    fcaller,              \* fetcher: the call site authenticate() returns to
    fresp,                \* fetcher: the auth_response / response local in hand
    lastResp,             \* fetcher: the response of the last request made
    flog,                 \* history: requests made since the current authenticate() began
    nAuth,                \* history: authenticate() calls made by the current schedule request
    glog,                 \* history: what the current schedule request has done, in order
    denied,               \* history: the portal turned a schedule request away and no login succeeded since
    fresult               \* history: what the last finished fetcher call returned

fetchVars == <<fpc, fcaller, fresp, lastResp, flog, nAuth, glog, denied, fresult>>

VARIABLES
    schedule_doc,         \* schedule command: what the document in SCHEDULE_DATA holds
    date_str,             \* schedule command: the text of the message, split at the dots
    target_date,          \* schedule command: the date the reply is for
    sreply,               \* history: the reply main.get_schedule_for_date returned
    scalls                \* history: calls of the fetcher made for the last message

schedVars == <<schedule_doc, date_str, target_date, sreply, scalls>>

VARIABLES
    users_file,           \* user registry: the file bot_users.pkl
    upc,                  \* user registry: position of the /start handler
    uid,                  \* user registry: the user id the handler works on
    users,                \* user registry: the users local of add_user
    persisted,            \* history: every user id a write has put into the file
    lastSave,             \* history: the set given to the last save_users and how the write went
    uread                 \* history: how the read of the last load_users went

userVars == <<users_file, upc, uid, users, persisted, lastSave, uread>>

VARIABLES
    parser,               \* lesson parser: which parser looked at the last candidate
    element,              \* lesson parser: the candidate (HTML container or JSON item)
    class_info            \* lesson parser: what the parser returned for it

parseVars == <<parser, element, class_info>>

VARIABLES
    lateStart,            \* history: worker threads started after the shutdown flag was set
    spc,                  \* /start handler run by each worker thread: its position
    susers                \* /start handler run by each worker thread: the users local of add_user

procVars == <<lateStart, spc, susers>>

auxVars == <<fetchVars, schedVars, userVars, parseVars, procVars>>

vars == <<auxVars, entry, env, pc, schedule_fetcher, is_authenticated, SCHEDULE_DATA,
          telegram_application, processing_thread, wpc, cur, shutdown_event,
          update_queue, queue_lock, bot_status, hpc, hbody, resp, nreq,
          accepted, dispatched, failed, discarded, afterStop, regResult,
          fetchRes, reply>>

startupVars == <<schedule_fetcher, SCHEDULE_DATA, telegram_application>>
workerVars == <<wpc, cur>>
httpVars == <<hpc, hbody, resp, nreq>>
histVars == <<accepted, dispatched, failed, discarded, afterStop>>
botVars == <<is_authenticated, fetchRes, reply>>

\* ----------------------------------------------------------------- helpers
ThreadAlive(t) == wpc[t] \notin {"unborn", "exited"}

\* processing_thread and processing_thread.is_alive()
ProcessorAlive == processing_thread # 0 /\ ThreadAlive(processing_thread)

Ids(seq) == {seq[i].did : i \in 1..Len(seq)}

IsPrefix(s, t) == Len(s) <= Len(t) /\ \A i \in 1..Len(s) : s[i] = t[i]

\* --------------------------------------------------- portal responses
\* what the fetcher looks at in a requests.Response: the status code, the
\* final URL, what the body holds, and whether redirects were followed
Statuses == {200, 302, 400, 401, 403, 500}

\* final URLs by the substrings the code tests:
\*   my_schedule  https://my.itmo.ru/schedule
\*   my_home      https://my.itmo.ru/
\*   id_auth      https://id.itmo.ru/auth/.../openid-connect/auth?...
\*                  &redirect_uri=https%3A%2F%2Fmy.itmo.ru%2Flogin%2Fcallback
\*   id_actions   https://id.itmo.ru/auth/realms/itmo/login-actions/authenticate?...
\*   id_error     https://id.itmo.ru/...?error=invalid_request
Urls == {"my_schedule", "my_home", "id_auth", "id_actions", "id_error"}

\* 'my.itmo.ru' in url
HasMy(u) == u \in {"my_schedule", "my_home", "id_auth"}
\* 'id.itmo.ru' in url
HasId(u) == u \in {"id_auth", "id_actions", "id_error"}
\* 'schedule' in url
HasSchedule(u) == u = "my_schedule"
\* 'login' in url.lower()
HasLogin(u) == u \in {"id_auth", "id_actions"}
\* 'error=' in url
HasError(u) == u = "id_error"

\* bodies: the schedule page, a page with a link to the login, a login page
\* with a complete form, a form
\* without the fields, a script-rendered page that carries tab_id and
\* session_code, one that carries tab_id only, or none of these
Pages == {"schedule", "link", "form", "form_nofields", "script", "script_partial",
          "plain"}

\* loc is the Location header of a response whose redirect was not followed
Resp(s, u, p, h) == [status |-> s, url |-> u, page |-> p, hist |-> h, loc |-> "none"]
RespLoc(s, u, l) == [status |-> s, url |-> u, page |-> "plain", hist |-> FALSE, loc |-> l]
NoResp == Resp(0, "none", "none", FALSE)

\* the ITMOScheduleFetcher is at rest and no call has been made
FetchIdle ==
    /\ fpc = "idle"
    /\ fcaller = "none"
    /\ fresp = NoResp
    /\ lastResp = NoResp
    /\ flog = {}
    /\ nAuth = 0
    /\ glog = <<>>
    /\ denied = FALSE
    /\ fresult = "none"

\* a date that is not set, a document that is not there, no reply yet
NoDate == [year |-> 0, month |-> 0, day |-> 0]
NoDoc == [key |-> <<0, 0>>, week |-> 0, day |-> "none", classes |-> <<>>]
Reply(k, b) == [kind |-> k, blocks |-> b]
NoReply == Reply("none", <<>>)

\* no message with a date has been handled
SchedIdle ==
    /\ schedule_doc = NoDoc
    /\ date_str = <<>>
    /\ target_date = NoDate
    /\ sreply = NoReply
    /\ scalls = 0

\* the file bot_users.pkl: absent, a pickle, or bytes that are no pickle
File(st, d) == [state |-> st, data |-> d]
NoFile == File("absent", <<>>)

\* a fresh deployment: no registry file, no /start handled
UsersIdle ==
    /\ users_file = NoFile
    /\ upc = "idle"
    /\ uid = 0
    /\ users = {}
    /\ persisted = {}
    /\ lastSave = [set |-> {}, write |-> "none"]
    /\ uread = "none"

\* a parser result: None, or the dict with its five possible keys
\* ("missing" stands for a key the dict does not have)
NoClassInfo ==
    [kind |-> "None", time |-> "missing", subject |-> "missing", room |-> "missing",
     address |-> "missing", teacher |-> "missing"]
NoElement == [kind |-> "none"]

\* no candidate has been parsed
ParseIdle ==
    /\ parser = "none"
    /\ element = NoElement
    /\ class_info = NoClassInfo

\* no worker was started late and no worker is inside a /start handler
ProcIdle ==
    /\ lateStart = {}
    /\ spc = [t \in Threads |-> "idle"]
    /\ susers = [t \in Threads |-> {}]

ComponentsIdle == FetchIdle /\ SchedIdle /\ UsersIdle /\ ParseIdle /\ ProcIdle

\* ------------------------------------------------------------------- Init
Envs ==
    [token : BOOLEAN, creds : BOOLEAN, sched : SchedKinds]

Init ==
    /\ entry \in {"main", "web_server"}
    /\ env \in Envs
    /\ pc = IF entry = "main" THEN "create_application" ELSE "run_server"
    /\ schedule_fetcher = FALSE
    /\ is_authenticated = FALSE
    /\ SCHEDULE_DATA = "None"
    /\ telegram_application = "None"
    /\ processing_thread = 0
    /\ wpc = [t \in Threads |-> "unborn"]
    /\ cur = [t \in Threads |-> NoUpdate]
    /\ shutdown_event = FALSE
    /\ update_queue = <<>>
    /\ queue_lock = NoOwner
    /\ bot_status = [is_running |-> FALSE, webhook_set |-> FALSE]
    /\ hpc = [h \in Handlers |-> "idle"]
    /\ hbody = [h \in Handlers |-> NoUpdate]
    /\ resp = [h \in Handlers |-> 0]
    /\ nreq = 0
    /\ accepted = <<>>
    /\ dispatched = <<>>
    /\ failed = {}
    /\ discarded = {}
    /\ afterStop = 0
    /\ regResult = "none"
    /\ fetchRes = "none"
    /\ reply = "none"
    /\ ComponentsIdle

\* ---------------------------------------------------------------- startup
\* json.loads(SCHEDULE_JSON) as load_schedule stores it
LoadScheduleJson(kind) ==
    CASE kind = "absent"  -> "None"
      [] kind = "invalid" -> "None"
      [] OTHER            -> kind

\* a Python value used as a condition: None and the empty document {} are
\* false
Truthy(sdata) == sdata \notin {"None", "empty"}

\* variant: create_application() without the token check
CreateResultNoTokenCheck(fetcher, sdata, token, initOk) ==
    IF ~fetcher /\ ~Truthy(sdata) THEN "aborted"
    ELSE IF ~initOk THEN "aborted"
    ELSE "initialize_telegram_app"

\* create_application(): where main() goes next. It returns None without a
\* schedule source or without a token; Application.initialize() can raise,
\* which ends the process
CreateResult(fetcher, sdata, token, initOk) ==
    IF ~fetcher /\ ~Truthy(sdata) THEN "aborted"
    ELSE IF ~token THEN "aborted"
    ELSE IF ~initOk THEN "aborted"
    ELSE "initialize_telegram_app"

\* create_application(), with the load_schedule() it calls
CreateApplication ==
    /\ pc = "create_application"
    /\ \E imported \in BOOLEAN, authOk \in BOOLEAN, initOk \in BOOLEAN :
         LET fetcher == env.creds /\ imported
             sdata == IF fetcher THEN "None" ELSE LoadScheduleJson(env.sched)
         IN /\ schedule_fetcher' = fetcher
            /\ is_authenticated' = (fetcher /\ authOk)
            /\ SCHEDULE_DATA' = sdata
            /\ pc' = CreateResult(fetcher, sdata, env.token, initOk)
    /\ UNCHANGED <<auxVars, entry, env, telegram_application, processing_thread, workerVars,
                   shutdown_event, update_queue, queue_lock, bot_status, httpVars,
                   histVars, regResult, fetchRes, reply>>

\* threading.Thread(...) in start_update_processor: a thread not used before
NewThread == CHOOSE t \in Threads : wpc[t] = "unborn"

\* variant: initialize_telegram_app without its global statement: the
\* assignment binds a local, the module's telegram_application stays None
InitializeTelegramAppNoGlobal ==
    /\ pc = "initialize_telegram_app"
    /\ processing_thread' = NewThread
    /\ wpc' = [wpc EXCEPT ![NewThread] = "check"]
    /\ pc' = "update_bot_status"
    /\ UNCHANGED <<auxVars, entry, env, startupVars, cur, shutdown_event,
                   update_queue, queue_lock, bot_status, httpVars, histVars,
                   regResult, botVars>>

\* initialize_telegram_app(application), with the start_update_processor()
\* it calls; main() passes an application that create_application initialized
InitializeTelegramApp ==
    /\ pc = "initialize_telegram_app"
    /\ LET application == "initialized"
       IN /\ telegram_application' = application
          /\ IF application # "initialized"
             THEN UNCHANGED <<processing_thread, wpc>>
             ELSE /\ processing_thread' = NewThread
                  /\ wpc' = [wpc EXCEPT ![NewThread] = "check"]
    /\ pc' = "update_bot_status"
    /\ UNCHANGED <<auxVars, entry, env, schedule_fetcher, SCHEDULE_DATA, cur, shutdown_event,
                   update_queue, queue_lock, bot_status, httpVars, histVars,
                   regResult, botVars>>

\* update_bot_status(running=True) as main() calls it
MarkRunning ==
    /\ pc = "update_bot_status"
    /\ bot_status' = [bot_status EXCEPT !.is_running = TRUE]
    /\ pc' = "run_server"
    /\ UNCHANGED <<auxVars, entry, env, startupVars, processing_thread, workerVars,
                   shutdown_event, update_queue, queue_lock, httpVars, histVars,
                   regResult, botVars>>

\* what one call of set_webhook() can end in: the token is missing; no
\* RENDER_APP_NAME, RENDER_SERVICE_NAME or WEBHOOK_URL is set; or the
\* request to the provider is made and is answered 200 with ok, 200
\* without ok, with another status, or not at all
RegOutcomes ==
    IF ~env.token THEN {"no_token"}
    ELSE {"no_url", "ok", "not_ok", "http_error", "exception"}

\* variant: set_webhook() that reports success whenever a request was made
set_webhook_lenient(outcome) == outcome \notin {"no_token", "no_url"}

\* set_webhook(): sets webhook_set and returns True only when the provider
\* answered 200 with ok
set_webhook(outcome) == outcome = "ok"

\* run_server() up to the call of set_webhook()
SetWebhook ==
    /\ pc = "run_server"
    /\ \E outcome \in RegOutcomes :
         /\ regResult' = IF outcome = "ok" THEN "ok" ELSE "failed"
         /\ bot_status' =
              IF set_webhook(outcome)
              THEN [bot_status EXCEPT !.webhook_set = TRUE]
              ELSE bot_status
    /\ pc' = "run_server_status"
    /\ UNCHANGED <<auxVars, entry, env, startupVars, processing_thread, workerVars,
                   shutdown_event, update_queue, queue_lock, httpVars, histVars,
                   botVars>>

\* run_server(): update_bot_status(running=True), then app.run(...)
StartServing ==
    /\ pc = "run_server_status"
    /\ bot_status' = [bot_status EXCEPT !.is_running = TRUE]
    /\ pc' = "serving"
    /\ UNCHANGED <<auxVars, entry, env, startupVars, processing_thread, workerVars,
                   shutdown_event, update_queue, queue_lock, httpVars, histVars,
                   regResult, botVars>>

\* app.run(...) returns or raises and the finally block of run_server()
\* calls stop_update_processor(): the function up to the join
StopUpdateProcessor ==
    /\ pc = "serving"
    /\ IF ProcessorAlive
       THEN /\ shutdown_event' = TRUE
            /\ pc' = "join"
       ELSE /\ UNCHANGED shutdown_event
            /\ pc' = "done"
    /\ UNCHANGED <<auxVars, entry, env, startupVars, processing_thread, workerVars,
                   update_queue, queue_lock, bot_status, httpVars, histVars,
                   regResult, botVars>>

\* processing_thread.join(timeout=5) returns: the worker has ended, or the
\* five seconds have passed; run_server() and main() return and the process,
\* whose other threads are daemon threads, ends
JoinReturn ==
    /\ pc = "join"
    /\ pc' = "done"
    /\ UNCHANGED <<auxVars, entry, env, startupVars, processing_thread, workerVars,
                   shutdown_event, update_queue, queue_lock, bot_status, httpVars,
                   histVars, regResult, botVars>>

\* ------------------------------------------------- portal schedule fetcher
Outcome(r, a) == [res |-> r, auth |-> a]

\* _parse_html_schedule(response.text, target_date): a schedule with or
\* without classes, or an exception, which get_schedule_for_date turns
\* into None
ParseHtml(a) == {Outcome(r, a) : r \in {"classes", "empty", "None"}}

\* ITMOScheduleFetcher.get_schedule_for_date from the point where a 200
\* response is in hand: the login-page check and the re-authentication
AfterOk(a) ==
    ParseHtml(a)                          \* the final URL is the schedule page
      \cup {Outcome("None", FALSE)}       \* login page, authenticate() fails
      \cup {Outcome("None", TRUE)}        \* re-authenticated, the retry fails
      \cup ParseHtml(TRUE)                \* re-authenticated, the retry succeeds

\* ... from the point where the schedule page answered with another status
AfterNot200(a) ==
    {Outcome("None", a)}                  \* not 401/403/login, or authenticate() fails
      \cup {Outcome("None", TRUE)}        \* re-authenticated, the retry fails
      \cup AfterOk(TRUE)                  \* re-authenticated, the retry answers 200

\* ... from the try block on: the API attempt, then the schedule page
AfterAuth(a) ==
    {Outcome(r, a) : r \in {"classes", "empty"}}   \* _parse_api_schedule(data)
      \cup {Outcome("None", a)}                    \* the page request raises
      \cup AfterNot200(a)
      \cup AfterOk(a)

\* ITMOScheduleFetcher.get_schedule_for_date(target_date): every result
\* it can return and the is_authenticated it leaves, given is_authenticated
\* on entry
FetcherGet(a) ==
    IF a THEN AfterAuth(TRUE)
    ELSE {Outcome("None", FALSE)} \cup AfterAuth(TRUE)

\* --------------------------------------------------- schedule command logic
\* main.get_schedule_for_date(date_str): the reply, given the exception the
\* date raised ("none", "ValueError", or another one), whether the fetcher
\* exists, what the fetcher did, and the static schedule
get_schedule_for_date(parsed, fetcher, fres, sdata) ==
    IF parsed = "ValueError" THEN "format_error"
    ELSE IF parsed # "none" THEN "error"
    ELSE IF fetcher /\ fres # "raise"
         THEN IF fres = "classes" THEN "live_classes" ELSE "live_no_classes"
    ELSE IF ~Truthy(sdata) THEN "not_loaded"
    ELSE "static_classes"

\* ------------------------------------------------------------------ worker
\* variant: the worker takes the newest update (update_queue.pop())
PopLast(q) == [item |-> q[Len(q)], rest |-> SubSeq(q, 1, Len(q) - 1)]

\* variant: the worker reads the oldest update and leaves it in the queue
PopKeep(q) == [item |-> Head(q), rest |-> q]

\* update_queue.pop(0)
Pop(q) == [item |-> Head(q), rest |-> Tail(q)]

\* variant: a loop that never looks at shutdown_event (while True)
WorkerCheckNoStop(t) ==
    /\ wpc[t] = "check"
    /\ wpc' = [wpc EXCEPT ![t] = "acquire"]
    /\ UNCHANGED <<auxVars, entry, env, pc, startupVars, processing_thread, cur, shutdown_event,
                   update_queue, queue_lock, bot_status, httpVars, histVars,
                   regResult, botVars>>

\* process_updates: the while condition
WorkerCheck(t) ==
    /\ wpc[t] = "check"
    /\ wpc' = [wpc EXCEPT ![t] = IF shutdown_event THEN "exited" ELSE "acquire"]
    /\ UNCHANGED <<auxVars, entry, env, pc, startupVars, processing_thread, cur, shutdown_event,
                   update_queue, queue_lock, bot_status, httpVars, histVars,
                   regResult, botVars>>

\* process_updates: with queue_lock (entry)
WorkerAcquire(t) ==
    /\ wpc[t] = "acquire"
    /\ queue_lock = NoOwner
    /\ queue_lock' = <<"worker", t>>
    /\ wpc' = [wpc EXCEPT ![t] = "pop"]
    /\ UNCHANGED <<auxVars, entry, env, pc, startupVars, processing_thread, cur, shutdown_event,
                   update_queue, bot_status, httpVars, histVars, regResult, botVars>>

\* variant: the with block is not left after the pop, so the lock stays
\* with the worker while it dispatches or sleeps
WorkerPopKeepsLock(t) ==
    /\ wpc[t] = "pop"
    /\ queue_lock = <<"worker", t>>
    /\ IF update_queue # <<>>
       THEN /\ cur' = [cur EXCEPT ![t] = Pop(update_queue).item]
            /\ update_queue' = Pop(update_queue).rest
            /\ wpc' = [wpc EXCEPT ![t] = "handle"]
       ELSE /\ UNCHANGED <<cur, update_queue>>
            /\ wpc' = [wpc EXCEPT ![t] = "sleep"]
    /\ UNCHANGED <<auxVars, entry, env, pc, startupVars, processing_thread, shutdown_event,
                   queue_lock, bot_status, httpVars, histVars, regResult, botVars>>

\* process_updates: the body of the with block, and its exit
WorkerPop(t) ==
    /\ wpc[t] = "pop"
    /\ queue_lock = <<"worker", t>>
    /\ IF update_queue # <<>>
       THEN /\ cur' = [cur EXCEPT ![t] = Pop(update_queue).item]
            /\ update_queue' = Pop(update_queue).rest
            /\ wpc' = [wpc EXCEPT ![t] = "handle"]
       ELSE /\ UNCHANGED <<cur, update_queue>>
            /\ wpc' = [wpc EXCEPT ![t] = "sleep"]
    /\ queue_lock' = NoOwner
    /\ UNCHANGED <<auxVars, entry, env, pc, startupVars, processing_thread, shutdown_event,
                   bot_status, httpVars, histVars, regResult, botVars>>

\* process_updates: await asyncio.sleep(0.1); continue
WorkerSleep(t) ==
    /\ wpc[t] = "sleep"
    /\ wpc' = [wpc EXCEPT ![t] = "check"]
    /\ UNCHANGED <<auxVars, entry, env, pc, startupVars, processing_thread, cur, shutdown_event,
                   update_queue, queue_lock, bot_status, httpVars, histVars,
                   regResult, botVars>>

\* process_updates: the application checks; an update that passes them
\* enters the try block that dispatches it
WorkerBegin(t) ==
    /\ wpc[t] = "handle"
    /\ IF telegram_application = "initialized"
       THEN /\ dispatched' = Append(dispatched, cur[t])
            /\ afterStop' = afterStop + (IF shutdown_event THEN 1 ELSE 0)
            /\ wpc' = [wpc EXCEPT ![t] = "dispatch"]
            /\ UNCHANGED <<cur, discarded>>
       ELSE /\ discarded' = discarded \cup {cur[t].did}
            /\ wpc' = [wpc EXCEPT ![t] = "check"]
            /\ cur' = [cur EXCEPT ![t] = NoUpdate]
            /\ UNCHANGED <<dispatched, afterStop>>
    /\ UNCHANGED <<auxVars, entry, env, pc, startupVars, processing_thread, shutdown_event,
                   update_queue, queue_lock, bot_status, httpVars, accepted, failed,
                   regResult, botVars>>

\* where the worker goes after a dispatch that raised
AfterFailure(t) == "check"

\* variant: a failed update is put back for another attempt
RequeueRetry(q, u) == Append(q, u)

\* what the worker does with the queue after a dispatch that raised
RequeueOnFailure(q, u) == q

\* process_updates: Update.de_json and process_update raise; the except
\* block logs and the loop goes on
WorkerDispatchFail(t) ==
    /\ wpc[t] = "dispatch"
    /\ failed' = failed \cup {cur[t].did}
    /\ update_queue' = RequeueOnFailure(update_queue, cur[t])
    /\ wpc' = [wpc EXCEPT ![t] = AfterFailure(t)]
    /\ cur' = [cur EXCEPT ![t] = NoUpdate]
    /\ UNCHANGED <<auxVars, entry, env, pc, startupVars, processing_thread, shutdown_event,
                   queue_lock, bot_status, httpVars, accepted, dispatched, discarded,
                   afterStop, regResult, botVars>>

\* process_updates: Update.de_json and process_update return; the handler
\* of a schedule command (button_handler, 'today') has computed its reply
WorkerDispatchDone(t) ==
    /\ wpc[t] = "dispatch"
    /\ IF cur[t].cmd = "today"
       THEN IF schedule_fetcher
            THEN \E o \in FetcherGet(is_authenticated) :
                   /\ is_authenticated' = o.auth
                   /\ fetchRes' = o.res
                   /\ reply' = get_schedule_for_date("none", TRUE, o.res, SCHEDULE_DATA)
            ELSE /\ fetchRes' = "unused"
                 /\ reply' = get_schedule_for_date("none", FALSE, "unused", SCHEDULE_DATA)
                 /\ UNCHANGED is_authenticated
       ELSE UNCHANGED botVars
    /\ wpc' = [wpc EXCEPT ![t] = "check"]
    /\ cur' = [cur EXCEPT ![t] = NoUpdate]
    /\ UNCHANGED <<auxVars, entry, env, pc, startupVars, processing_thread, shutdown_event,
                   update_queue, queue_lock, bot_status, httpVars, histVars, regResult>>

\* ------------------------------------------------------- POST /webhook
\* variant: request.get_json(silent=True), which returns None for a body
\* that is not JSON
get_json_silent(body) ==
    CASE body.kind = "unparsable" -> "falsy"
      [] body.kind = "empty"      -> "falsy"
      [] OTHER                    -> "dict"

\* request.get_json() of Flask: the parsed value, or BadRequest raised for
\* a body that is not JSON
get_json(body) ==
    CASE body.kind = "unparsable" -> "raise"
      [] body.kind = "empty"      -> "falsy"
      [] OTHER                    -> "dict"

\* variant: webhook() without the processing_thread check
WebhookEarlyNoAliveCheck(body, alive) ==
    CASE get_json(body) = "raise" -> 500
      [] get_json(body) = "falsy" -> 200
      [] OTHER -> 0

\* webhook(): the answer decided before the queue is touched (0: none,
\* the update goes on to the queue)
WebhookEarly(body, alive) ==
    CASE get_json(body) = "raise" -> 500
      [] get_json(body) = "falsy" -> 200
      [] OTHER -> IF alive THEN 0 ELSE 500

\* Telegram (or anyone) posts a body; a request thread picks it up
Arrive(h) ==
    /\ pc = "serving"
    /\ hpc[h] = "idle"
    /\ nreq < MaxRequests
    /\ nreq' = nreq + 1
    /\ \E b \in Bodies(nreq + 1) : hbody' = [hbody EXCEPT ![h] = b]
    /\ hpc' = [hpc EXCEPT ![h] = "recv"]
    /\ UNCHANGED <<auxVars, entry, env, pc, startupVars, processing_thread, workerVars,
                   shutdown_event, update_queue, queue_lock, bot_status, resp,
                   histVars, regResult, botVars>>

\* webhook(): from get_json() to the processing_thread check
HandlerRun(h) ==
    /\ hpc[h] = "recv"
    /\ LET early == WebhookEarly(hbody[h], ProcessorAlive)
       IN IF early # 0
          THEN /\ resp' = [resp EXCEPT ![h] = early]
               /\ hpc' = [hpc EXCEPT ![h] = "returned"]
          ELSE /\ hpc' = [hpc EXCEPT ![h] = "acquire"]
               /\ UNCHANGED resp
    /\ UNCHANGED <<auxVars, entry, env, pc, startupVars, processing_thread, workerVars,
                   shutdown_event, update_queue, queue_lock, bot_status, hbody, nreq,
                   histVars, regResult, botVars>>

\* webhook(): with queue_lock (entry)
HandlerAcquire(h) ==
    /\ hpc[h] = "acquire"
    /\ queue_lock = NoOwner
    /\ queue_lock' = <<"handler", h>>
    /\ hpc' = [hpc EXCEPT ![h] = "append"]
    /\ UNCHANGED <<auxVars, entry, env, pc, startupVars, processing_thread, workerVars,
                   shutdown_event, update_queue, bot_status, hbody, resp, nreq,
                   histVars, regResult, botVars>>

\* variant: a queue of bounded size that drops what does not fit
EnqueueBounded(q, u) == IF Len(q) >= 1 THEN q ELSE Append(q, u)

\* update_queue.append(update_data)
Enqueue(q, u) == Append(q, u)

\* webhook(): the body of the with block, its exit, and return "OK", 200
HandlerAppend(h) ==
    /\ hpc[h] = "append"
    /\ queue_lock = <<"handler", h>>
    /\ update_queue' = Enqueue(update_queue, hbody[h])
    /\ accepted' = Append(accepted, hbody[h])
    /\ queue_lock' = NoOwner
    /\ resp' = [resp EXCEPT ![h] = 200]
    /\ hpc' = [hpc EXCEPT ![h] = "returned"]
    /\ UNCHANGED <<auxVars, entry, env, pc, startupVars, processing_thread, workerVars,
                   shutdown_event, bot_status, hbody, nreq, dispatched, failed,
                   discarded, afterStop, regResult, botVars>>

\* the response has been sent; the request thread is free again
Respond(h) ==
    /\ hpc[h] = "returned"
    /\ hpc' = [hpc EXCEPT ![h] = "idle"]
    /\ hbody' = [hbody EXCEPT ![h] = NoUpdate]
    /\ resp' = [resp EXCEPT ![h] = 0]
    /\ UNCHANGED <<auxVars, entry, env, pc, startupVars, processing_thread, workerVars,
                   shutdown_event, update_queue, queue_lock, bot_status, nreq,
                   histVars, regResult, botVars>>

\* ------------------------------------------------------------ specification
MainStep ==
    \/ CreateApplication
    \/ InitializeTelegramApp
    \/ MarkRunning
    \/ SetWebhook
    \/ StartServing
    \/ StopUpdateProcessor
    \/ JoinReturn

WorkerStep(t) ==
    \/ WorkerCheck(t)
    \/ WorkerAcquire(t)
    \/ WorkerPop(t)
    \/ WorkerSleep(t)
    \/ WorkerBegin(t)
    \/ WorkerDispatchFail(t)
    \/ WorkerDispatchDone(t)

HandlerStep(h) ==
    \/ Arrive(h)
    \/ HandlerRun(h)
    \/ HandlerAcquire(h)
    \/ HandlerAppend(h)
    \/ Respond(h)

\* the process has not ended
Running == pc # "done"

Next ==
    \/ MainStep
    \/ Running /\ \E t \in Threads : WorkerStep(t)
    \/ Running /\ \E h \in Handlers : HandlerStep(h)

Spec == Init /\ [][Next]_vars

\* Threads that are ready to run do run: every step of a worker thread and
\* of a request thread is taken if it stays possible, and a dispatch in
\* progress returns
Fairness ==
    /\ \A t \in Threads : WF_vars(Running /\ WorkerStep(t))
    /\ \A h \in Handlers :
         WF_vars(Running /\ (HandlerRun(h) \/ HandlerAcquire(h)
                               \/ HandlerAppend(h) \/ Respond(h)))

\* the fair runs of the program started by main.py with a complete
\* configuration (a token and a static schedule)
FairInit ==
    /\ Init
    /\ entry = "main"
    /\ env = [token |-> TRUE, creds |-> FALSE, sched |-> "classes"]

FairSpec == FairInit /\ [][Next]_vars /\ Fairness

\* ------------------------------------------------------------------ claims
\* the request thread h finishes the step that starts at position p
Leaves(h, p) == hpc[h] = p /\ hpc'[h] # p

\* C1: updates are dispatched in the order in which they were appended to
\* the queue: the dispatch history is always a prefix of the append history
C1_Fifo == IsPrefix(dispatched, accepted)

\* two updates were dispatched, and the one dispatched first is the one
\* that arrived second: its request overtook the other on the way to the
\* queue
C1_Witness ==
    /\ Len(dispatched) = 2
    /\ dispatched[1].did = 2
    /\ dispatched[2].did = 1

\* C2 (as stated): an unparsable or empty body is answered 200 and leaves
\* the queue unchanged
C2_Original ==
    [][\A h \in Handlers :
         (Leaves(h, "recv") /\ hbody[h].kind \in {"unparsable", "empty"})
            => (resp'[h] = 200 /\ update_queue' = update_queue)]_vars

\* C2 (amended): an empty body is answered 200, a body that is not JSON is
\* answered 500, and both leave the queue unchanged and end the request
C2_Amended ==
    [][\A h \in Handlers :
         /\ (Leaves(h, "recv") /\ hbody[h].kind = "empty")
               => (resp'[h] = 200 /\ hpc'[h] = "returned"
                     /\ update_queue' = update_queue)
         /\ (Leaves(h, "recv") /\ hbody[h].kind = "unparsable")
               => (resp'[h] = 500 /\ hpc'[h] = "returned"
                     /\ update_queue' = update_queue)]_vars

\* one request with an empty body has been answered 200 and one with an
\* unparsable body 500
C2_Witness ==
    /\ \E h \in Handlers :
         hpc[h] = "returned" /\ hbody[h].kind = "empty" /\ resp[h] = 200
    /\ \E h \in Handlers :
         hpc[h] = "returned" /\ hbody[h].kind = "unparsable" /\ resp[h] = 500

\* C3: an update that arrives while the worker thread is not alive is
\* answered 500 and is not appended
C3_NotAlive500 ==
    [][\A h \in Handlers :
         (Leaves(h, "recv") /\ hbody[h].kind = "update" /\ ~ProcessorAlive)
            => (resp'[h] = 500 /\ hpc'[h] = "returned"
                  /\ update_queue' = update_queue)]_vars

\* an update was answered 500 after the worker thread had exited
C3_Witness ==
    /\ processing_thread # 0
    /\ wpc[processing_thread] = "exited"
    /\ \E h \in Handlers :
         hpc[h] = "returned" /\ hbody[h].kind = "update" /\ resp[h] = 500

\* C4: an update whose handler found the worker alive goes on to the lock,
\* and is then appended at the tail under the lock and answered 200,
\* whatever the length of the queue
C4_AlwaysAppended ==
    [][\A h \in Handlers :
         /\ (Leaves(h, "recv") /\ hbody[h].kind = "update" /\ ProcessorAlive)
               => hpc'[h] = "acquire"
         /\ Leaves(h, "acquire") => hpc'[h] = "append"
         /\ Leaves(h, "append")
               => /\ queue_lock = <<"handler", h>>
                  /\ update_queue' = Append(update_queue, hbody[h])
                  /\ resp'[h] = 200]_vars

\* an update was appended behind another one that was still waiting
C4_Witness ==
    /\ Len(update_queue) = 2
    /\ \E h \in Handlers :
         /\ hpc[h] = "returned"
         /\ resp[h] = 200
         /\ update_queue[2] = hbody[h]

\* how often delivery d was handed to the dispatcher
Count(seq, d) == Cardinality({i \in 1..Len(seq) : seq[i].did = d})

\* C5: no delivery is dispatched twice, and every appended update is
\* eventually dispatched unless a shutdown is requested first; deliveries
\* are told apart by arrival, not by update_id
C5_DispatchedOnce ==
    /\ [](\A d \in Deliveries : Count(dispatched, d) <= 1)
    /\ \A d \in Deliveries :
         (d \in Ids(accepted)) ~> (d \in Ids(dispatched) \/ shutdown_event)

\* two deliveries with the same update_id have both been dispatched
C5_Witness ==
    /\ Len(dispatched) = 2
    /\ dispatched[1].uid = dispatched[2].uid
    /\ dispatched[1].did # dispatched[2].did
    /\ ~shutdown_event

\* C6: an update whose dispatch raised was dispatched once, is in no queue
\* and in no worker's hands again, and the step that handles the failure
\* leaves the worker in its loop with the queue as it was
C6_DroppedOnFailure ==
    /\ [](\A d \in failed :
            /\ Count(dispatched, d) = 1
            /\ d \notin Ids(update_queue)
            /\ \A t \in Threads : cur[t].did # d)
    /\ [][\A t \in Threads :
            (wpc[t] = "dispatch" /\ failed' # failed)
               => (wpc'[t] = "check" /\ update_queue' = update_queue)]_vars

\* the dispatch of one update raised and the worker has gone on to
\* dispatch the update that was queued behind it
C6_Witness ==
    /\ Len(dispatched) = 2
    /\ dispatched[1].did \in failed
    /\ dispatched[2].did \notin failed
    /\ \E t \in Threads : wpc[t] = "dispatch"

\* C7: once the shutdown flag is set, a worker at the top of its loop can
\* only leave the loop; at most one dispatch is begun after the flag was
\* set; a dispatch in progress ends by returning or raising, never by the
\* flag; and the join can return whatever the worker is doing
C7_CooperativeShutdown ==
    /\ [](afterStop <= 1)
    /\ [](pc = "join" => ENABLED JoinReturn)
    /\ [](\A t \in Threads : wpc[t] = "exited" => shutdown_event /\ cur[t] = NoUpdate)
    /\ [][\A t \in Threads :
            /\ (wpc[t] = "check" /\ shutdown_event /\ wpc'[t] # "check")
                  => wpc'[t] = "exited"
            /\ (wpc[t] = "dispatch" /\ wpc'[t] # "dispatch")
                  => wpc'[t] = "check"]_vars

\* stop_update_processor has returned while the worker is still inside a
\* dispatch that it began before it could see the flag
C7_Witness ==
    /\ pc = "done"
    /\ shutdown_event
    /\ \E t \in Threads : wpc[t] = "dispatch"

\* a required configuration value is missing
ConfigMissing == ~env.token \/ (~env.creds /\ env.sched = "absent")

C9_RegistrationFailureTolerated ==
    /\ [](bot_status.webhook_set <=> regResult = "ok")
    /\ [](pc = "serving" => bot_status.is_running)
    /\ [][(pc = "run_server" /\ pc' # pc) => pc' = "run_server_status"]_vars
    /\ [][(pc = "run_server_status" /\ pc' # pc)
            => (pc' = "serving" /\ bot_status'.is_running)]_vars

\* the server is serving and handling a request after a failed registration
C9_Witness ==
    /\ pc = "serving"
    /\ regResult = "failed"
    /\ env.token
    /\ bot_status.is_running
    /\ ~bot_status.webhook_set
    /\ \E h \in Handlers : hpc[h] = "returned"

\* C10 (as stated): when the fetcher returns None, the reply is the static
\* schedule if one is loaded and an error string otherwise
C10_FallbackToStatic ==
    fetchRes = "None"
       => reply = (IF Truthy(SCHEDULE_DATA) THEN "static_classes" ELSE "not_loaded")


\* =========================================================================
\* ITMOScheduleFetcher on its own: authenticate(),
\* _direct_keycloak_auth_with_params() and get_schedule_for_date(), one
\* step per request to the portal, the portal answering as it likes
\* =========================================================================

\* every variable of the server at rest; the components below run while
\* the server is serving
QuietServer ==
    /\ entry = "main"
    /\ pc = "serving"
    /\ telegram_application = "initialized"
    /\ processing_thread = 0
    /\ wpc = [t \in Threads |-> "unborn"]
    /\ cur = [t \in Threads |-> NoUpdate]
    /\ shutdown_event = FALSE
    /\ update_queue = <<>>
    /\ queue_lock = NoOwner
    /\ bot_status = [is_running |-> TRUE, webhook_set |-> FALSE]
    /\ hpc = [h \in Handlers |-> "idle"]
    /\ hbody = [h \in Handlers |-> NoUpdate]
    /\ resp = [h \in Handlers |-> 0]
    /\ nreq = 0
    /\ accepted = <<>>
    /\ dispatched = <<>>
    /\ failed = {}
    /\ discarded = {}
    /\ afterStop = 0
    /\ regResult = "none"
    /\ fetchRes = "none"
    /\ reply = "none"

serverVars == <<entry, env, pc, telegram_application, processing_thread, wpc, cur,
                shutdown_event, update_queue, queue_lock, bot_status, hpc, hbody,
                resp, nreq, accepted, dispatched, failed, discarded, afterStop,
                regResult, fetchRes, reply>>

\* a request that raised (timeout, connection error) instead of answering
Exc == Resp(0, "exception", "none", FALSE)

\* the status lists the code tests against
RedirectCodes == {302, 301, 303, 307, 308}
LandedCodes == {200, 302, 303, 307, 308}
SubmitCodes == {200, 302}
DeniedCodes == {401, 403}

\* variant: authenticate() without its except clauses
AuthenticateNoExcept == "raise"

\* authenticate(): both except clauses return False
AuthenticateExcept == "False"

\* _direct_keycloak_auth_with_params(): except Exception returns False
DirectExcept == "False"

\* get_schedule_for_date(): both except clauses return None
GetScheduleExcept == "None"

\* a value that leaves an inner function, as the function around the call
\* sees it: an exception is handled by the outer except clause
Through(val, outer) == IF val = "raise" THEN outer ELSE val

\* what a finished authenticate() means at the place that called it:
\* main.load_schedule, or one of the three calls in get_schedule_for_date
\* (the first stands before the try block, the other two inside it)
AuthDone(val) ==
    CASE fcaller = "g_entry" ->
           IF val = "True" THEN [pc |-> "g_api", res |-> "none"]
           ELSE IF val = "False" THEN [pc |-> "idle", res |-> "None"]
           ELSE [pc |-> "idle", res |-> "raise"]
      [] fcaller = "g_denied" ->
           IF val = "True" THEN [pc |-> "g_retry_denied", res |-> "none"]
           ELSE IF val = "False" THEN [pc |-> "idle", res |-> "None"]
           ELSE [pc |-> "idle", res |-> GetScheduleExcept]
      [] fcaller = "g_login" ->
           IF val = "True" THEN [pc |-> "g_retry_login", res |-> "none"]
           ELSE IF val = "False" THEN [pc |-> "idle", res |-> "None"]
           ELSE [pc |-> "idle", res |-> GetScheduleExcept]
      [] OTHER -> [pc |-> "idle", res |-> val]

\* the end of one step of authenticate(): "True" stands for
\* self.is_authenticated = True; return True, "False" for return False,
\* "raise" for an exception that leaves the function, anything else is the
\* next position
Finish(d) ==
    IF d \in {"True", "False", "raise"}
    THEN /\ is_authenticated' = (is_authenticated \/ d = "True")
         /\ denied' = (denied /\ d # "True")
         /\ fpc' = AuthDone(d).pc
         /\ fresult' = AuthDone(d).res
         /\ fcaller' = IF AuthDone(d).pc = "idle" THEN "none" ELSE fcaller
    ELSE /\ fpc' = d
         /\ UNCHANGED <<is_authenticated, denied, fresult, fcaller>>

\* one request of authenticate() or of the direct login: the answer is
\* drawn from resps or the request raises; Decide gives what the code does
\* with the answer; keep says whether the answer stays in hand as
\* auth_response / response
AuthStep(kind, resps, Decide(_), exc, keep) ==
    /\ \E r \in resps \cup {Exc} :
         /\ lastResp' = r
         /\ flog' = flog \cup {kind}
         /\ fresp' = IF keep /\ r # Exc THEN r ELSE fresp
         /\ Finish(IF r = Exc THEN exc ELSE Decide(r))
    /\ UNCHANGED <<serverVars, parseVars, procVars, schedVars, userVars, schedule_fetcher, SCHEDULE_DATA, nAuth,
                   glog>>

\* ------------------------------------------------------------ authenticate
\* step 0: GET /schedule without following redirects; the URL of the
\* response is the URL asked for
ProbeResps ==
    {Resp(st, "my_schedule", p, FALSE) : st \in Statuses, p \in {"schedule", "plain"}}

\* variant: authenticate() that always runs the whole login
ProbeDecideAlwaysLogin(r) == "a_schedule"

\* authenticate(): the check "already authorized" on the probe
ProbeDecide(r) ==
    IF /\ r.status = 200
       /\ HasSchedule(r.url)
       /\ ~HasId(r.url) /\ ~HasLogin(r.url)
       /\ r.page = "schedule"
    THEN "True"
    ELSE "a_schedule"

AProbe ==
    /\ fpc = "a_probe"
    /\ AuthStep("probe", ProbeResps, ProbeDecide, AuthenticateExcept, FALSE)

\* step 1: GET /schedule following redirects; step 2 takes the login URL
\* from the final URL, from a link or from a meta refresh of the page
SchedulePageResps ==
    {Resp(200, u, p, u # "my_schedule") :
        u \in {"my_schedule", "id_auth"}, p \in {"link", "plain"}}

OauthUrlFound(r) == HasId(r.url) \/ r.page = "link"

SchedulePageDecide(r) == IF OauthUrlFound(r) THEN "a_login_page" ELSE "a_oauth"

ASchedulePage ==
    /\ fpc = "a_schedule"
    /\ AuthStep("schedule", SchedulePageResps, SchedulePageDecide,
                AuthenticateExcept, FALSE)

\* no login URL found: GET the standard OAuth URL without following
\* redirects; oauth_url becomes the Location header, or the URL asked for
OauthResps ==
    {RespLoc(st, "id_auth", l) :
        st \in {200, 302}, l \in {"none", "id_actions", "id_error"}}

RedirectTarget(r) ==
    IF r.status \in RedirectCodes /\ r.loc # "none" THEN r.loc ELSE r.url

OauthDecide(r) == IF HasError(RedirectTarget(r)) THEN "False" ELSE "a_login_page"

AOauth ==
    /\ fpc = "a_oauth"
    /\ AuthStep("oauth", OauthResps, OauthDecide, AuthenticateExcept, FALSE)

\* variant: the direct login is tried as soon as one of tab_id and
\* session_code was found
AfterLoginPageEitherId(r) ==
    IF HasError(r.url) THEN "False"
    ELSE IF r.status # 200 THEN "False"
    ELSE IF HasMy(r.url) /\ HasSchedule(r.url) THEN "True"
    ELSE CASE r.page = "form"          -> "a_submit"
           [] r.page = "form_nofields" -> "False"
           [] r.page \in {"script", "script_partial"} -> "kc_get"
           [] OTHER                    -> "False"

\* authenticate() from the check for an OAuth error in the final URL to
\* the search for the login form: the step that follows, for the
\* auth_response in hand
AfterLoginPage(r) ==
    IF HasError(r.url) THEN "False"
    ELSE IF r.status # 200 THEN "False"
    ELSE IF HasMy(r.url) /\ HasSchedule(r.url) THEN "True"
    ELSE CASE r.page = "form"          -> "a_submit"
           [] r.page = "form_nofields" -> "False"
           [] r.page = "script"        -> "kc_get"
           [] OTHER                    -> "False"

\* step 3: GET oauth_url following redirects
LoginPageResps ==
    {Resp(st, u, p, TRUE) :
        st \in {200, 302, 500}, u \in Urls,
        p \in {"form", "form_nofields", "script", "script_partial", "plain"}}

LoginPageDecide(r) ==
    IF r.status \in LandedCodes /\ HasMy(r.url) /\ ~HasId(r.url)
    THEN "a_verify_landed"
    ELSE AfterLoginPage(r)

ALoginPage ==
    /\ fpc = "a_login_page"
    /\ AuthStep("login_page", LoginPageResps, LoginPageDecide,
                AuthenticateExcept, TRUE)

\* a GET /schedule that follows redirects, made to verify a login
VerifyResps ==
    {Resp(st, u, "plain", u # "my_schedule") :
        st \in {200, 401, 500}, u \in {"my_schedule", "id_auth"}}

VerifyLandedDecide(r) ==
    IF r.status = 200 /\ HasSchedule(r.url) THEN "True" ELSE AfterLoginPage(fresp)

AVerifyLanded ==
    /\ fpc = "a_verify_landed"
    /\ AuthStep("verify", VerifyResps, VerifyLandedDecide,
                AuthenticateExcept, FALSE)

\* the POST of the login form with the login and the password
SubmitResps ==
    {Resp(st, u, "plain", h) :
        st \in {200, 302, 400, 500}, u \in {"my_home", "id_actions"}, h \in BOOLEAN}

SubmitDecide(r) ==
    IF r.status \in SubmitCodes /\ (HasMy(r.url) \/ r.hist)
    THEN "a_verify_submit"
    ELSE "False"

ASubmit ==
    /\ fpc = "a_submit"
    /\ AuthStep("submit", SubmitResps, SubmitDecide, AuthenticateExcept, FALSE)

VerifySubmitDecide(r) ==
    IF r.status = 200 /\ HasSchedule(r.url) THEN "True" ELSE "False"

AVerifySubmit ==
    /\ fpc = "a_verify_submit"
    /\ AuthStep("verify", VerifyResps, VerifySubmitDecide,
                AuthenticateExcept, FALSE)

\* ------------------------------------- _direct_keycloak_auth_with_params
\* an exception here is turned into False by the function itself
KcExcept == Through(DirectExcept, AuthenticateExcept)

\* the direct login from the look at the page for a form to the choice of
\* the POST: a form without the two fields ends the login, a complete form
\* or no form at all leads to a POST of the credentials
AfterKcPage(r) == IF r.page = "form_nofields" THEN "False" ELSE "kc_post"

\* the direct login from the status check of the login page on
AfterKcResponse(r) ==
    IF r.status # 200
    THEN IF r.status = 400 THEN "kc_probe400" ELSE "False"
    ELSE IF HasMy(r.url) /\ ~HasId(r.url) THEN "kc_verify_landed"
    ELSE AfterKcPage(r)

\* GET auth_url with tab_id and session_code, without following redirects
KcGetResps ==
    {[status |-> st, url |-> "id_actions", page |-> p, hist |-> FALSE, loc |-> l] :
        st \in {200, 302, 400, 500}, p \in {"form", "form_nofields", "plain"},
        l \in {"none", "id_actions"}}

KcGetDecide(r) ==
    IF r.status \in RedirectCodes /\ r.loc # "none"
    THEN "kc_follow"
    ELSE AfterKcResponse(r)

KcGet ==
    /\ fpc = "kc_get"
    /\ AuthStep("kc_get", KcGetResps, KcGetDecide, KcExcept, TRUE)

\* GET of the redirect target, following redirects
KcFollowResps ==
    {Resp(st, u, p, TRUE) :
        st \in {200, 400, 500}, u \in {"my_home", "id_actions"},
        p \in {"form", "form_nofields", "plain"}}

KcFollow ==
    /\ fpc = "kc_follow"
    /\ AuthStep("kc_follow", KcFollowResps, AfterKcResponse, KcExcept, TRUE)

\* a GET /schedule of the direct login, of which only the status is read
KcProbeResps ==
    {Resp(st, "my_schedule", "plain", FALSE) : st \in {200, 302, 401}}

KcProbe400Decide(r) == IF r.status = 200 THEN "True" ELSE "False"

KcProbe400 ==
    /\ fpc = "kc_probe400"
    /\ AuthStep("kc_probe",
                KcProbeResps, KcProbe400Decide, KcExcept, FALSE)

\* lines 562-568: the check of the schedule page after the login page was skipped
KcVerifyLandedDecide(r) == IF r.status = 200 THEN "True" ELSE AfterKcPage(fresp)

KcVerifyLanded ==
    /\ fpc = "kc_verify_landed"
    /\ AuthStep("verify", VerifyResps, KcVerifyLandedDecide, KcExcept, FALSE)

\* the POST of the credentials, to the form action or straight to
\* login-actions/authenticate
KcPostResps ==
    {Resp(st, u, "plain", h) :
        st \in {200, 302, 400, 500}, u \in {"my_home", "id_actions"}, h \in BOOLEAN}

KcPostDecide(r) ==
    IF r.status = 400 THEN "kc_probe_post400"
    ELSE IF r.status \in LandedCodes
         THEN IF HasMy(r.url) \/ HasSchedule(r.url) THEN "True"
              ELSE IF r.hist THEN "kc_verify_hist"
              ELSE "False"
    ELSE "False"

KcPost ==
    /\ fpc = "kc_post"
    /\ AuthStep("kc_post", KcPostResps, KcPostDecide, KcExcept, FALSE)

KcProbePost400Decide(r) == IF r.status = 200 THEN "True" ELSE "kc_refresh"

KcProbePost400 ==
    /\ fpc = "kc_probe_post400"
    /\ AuthStep("kc_probe", KcProbeResps, KcProbePost400Decide, KcExcept, FALSE)

\* GET of the base OAuth URL to refresh the session, after a 400 on the POST
KcRefreshResps ==
    {Resp(st, u, "plain", TRUE) : st \in {200, 500}, u \in {"my_home", "id_auth", "id_actions"}}

KcRefreshDecide(r) ==
    IF r.status = 200 /\ HasMy(r.url) THEN "kc_verify_refresh" ELSE "False"

KcRefresh ==
    /\ fpc = "kc_refresh"
    /\ AuthStep("kc_refresh", KcRefreshResps, KcRefreshDecide, KcExcept, FALSE)

KcVerifyDecide(r) == IF r.status = 200 THEN "True" ELSE "False"

KcVerifyRefresh ==
    /\ fpc = "kc_verify_refresh"
    /\ AuthStep("verify", VerifyResps, KcVerifyDecide, KcExcept, FALSE)

KcVerifyHist ==
    /\ fpc = "kc_verify_hist"
    /\ AuthStep("verify", VerifyResps, KcVerifyDecide, KcExcept, FALSE)

\* ------------------------------------ fetcher.get_schedule_for_date
\* the beginning of an authenticate() call made from call site site
EnterAuthenticate(site) ==
    /\ fpc' = "a_probe"
    /\ fcaller' = site
    /\ flog' = {}
    /\ fresp' = NoResp

\* main.load_schedule calls schedule_fetcher.authenticate()
CallAuthenticate ==
    /\ fpc = "idle"
    /\ EnterAuthenticate("top")
    /\ lastResp' = NoResp
    /\ nAuth' = 0
    /\ glog' = <<>>
    /\ fresult' = "none"
    /\ UNCHANGED <<serverVars, parseVars, procVars, schedVars, userVars, schedule_fetcher, SCHEDULE_DATA, is_authenticated, denied>>

\* main.get_schedule_for_date calls schedule_fetcher.get_schedule_for_date:
\* the function up to the try block
CallGetSchedule ==
    /\ fpc = "idle"
    /\ lastResp' = NoResp
    /\ fresult' = "none"
    /\ IF ~is_authenticated
       THEN /\ EnterAuthenticate("g_entry")
            /\ nAuth' = 1
            /\ glog' = <<"auth_entry">>
       ELSE /\ fpc' = "g_api"
            /\ fcaller' = "none"
            /\ flog' = {}
            /\ fresp' = NoResp
            /\ nAuth' = 0
            /\ glog' = <<>>
    /\ UNCHANGED <<serverVars, parseVars, procVars, schedVars, userVars, schedule_fetcher, SCHEDULE_DATA, is_authenticated, denied>>

\* the attempt on /api/schedule: a 200 with a non-empty JSON document that
\* _parse_api_schedule accepts is returned; everything else (another
\* status, an exception, an empty document) is passed over
GApi ==
    /\ fpc = "g_api"
    /\ \E parsed \in BOOLEAN :
         IF parsed
         THEN /\ fpc' = "idle"
              /\ fresult' = "schedule"
         ELSE /\ fpc' = "g_page"
              /\ UNCHANGED fresult
    /\ glog' = Append(glog, "api")
    /\ UNCHANGED <<serverVars, parseVars, procVars, schedVars, userVars, schedule_fetcher, SCHEDULE_DATA, is_authenticated,
                   fcaller, fresp, lastResp, flog, nAuth, denied>>

\* GET /schedule?date=..., following redirects
PageResps ==
    {Resp(st, u, "plain", u # "my_schedule") :
        st \in Statuses, u \in {"my_schedule", "id_auth", "id_error"}}

\* a 200 in hand: the check "not on the login page"
Page200(r) ==
    IF HasLogin(r.url) \/ HasId(r.url) THEN "g_login" ELSE "parse"

\* the first answer of the schedule page
PageDecide(r) ==
    IF r.status # 200
    THEN IF r.status \in DeniedCodes \/ HasLogin(r.url) THEN "g_denied" ELSE "None"
    ELSE Page200(r)

\* the answer to the request repeated after a 401/403
RetryDeniedDecide(r) == IF r.status # 200 THEN "None" ELSE Page200(r)

\* variant: the repeated request is checked like the first one, so a login
\* page sends the fetcher to authenticate() once more
RetryLoginDecideAgain(r) == IF r.status # 200 THEN "None" ELSE Page200(r)

\* the answer to the request repeated after a login page
RetryLoginDecide(r) ==
    IF r.status # 200 THEN "None"
    ELSE IF HasLogin(r.url) \/ HasId(r.url) THEN "None"
    ELSE "parse"

\* the portal turns a request away: 401, 403, or a redirect to the
\* identity provider
TurnedAway(r) == r.status \in DeniedCodes \/ HasId(r.url)

\* one request for the schedule page and what the code does with the
\* answer: call authenticate() again (after self.is_authenticated = False
\* on the login-page branch), return None, or return what
\* _parse_html_schedule gives (an exception in it is returned as None)
GetStep(Decide(_)) ==
    /\ \E r \in PageResps \cup {Exc}, parsed \in {"schedule", GetScheduleExcept} :
         LET d == IF r = Exc THEN GetScheduleExcept ELSE Decide(r)
         IN /\ lastResp' = r
            /\ denied' = (denied \/ (r # Exc /\ is_authenticated /\ TurnedAway(r)))
            /\ IF d \in {"g_denied", "g_login"}
               THEN /\ EnterAuthenticate(d)
                    /\ nAuth' = nAuth + 1
                    /\ glog' = glog \o <<"page", IF d = "g_denied" THEN "auth_denied"
                                                  ELSE "auth_login">>
                    /\ is_authenticated' = (is_authenticated /\ d # "g_login")
                    /\ UNCHANGED fresult
               ELSE /\ fpc' = "idle"
                    /\ fresult' = IF d = "parse" THEN parsed ELSE d
                    /\ glog' = Append(glog, "page")
                    /\ UNCHANGED <<fcaller, flog, fresp, nAuth, is_authenticated>>
    /\ UNCHANGED <<serverVars, parseVars, procVars, schedVars, userVars, schedule_fetcher, SCHEDULE_DATA>>

GPage ==
    /\ fpc = "g_page"
    /\ GetStep(PageDecide)

GRetryDenied ==
    /\ fpc = "g_retry_denied"
    /\ GetStep(RetryDeniedDecide)

GRetryLogin ==
    /\ fpc = "g_retry_login"
    /\ GetStep(RetryLoginDecide)

\* ------------------------------------------------ the fetcher specification
FetchInit ==
    /\ QuietServer
    /\ env = [token |-> TRUE, creds |-> TRUE, sched |-> "absent"]
    /\ schedule_fetcher = TRUE
    /\ SCHEDULE_DATA = "None"
    /\ is_authenticated = FALSE
    /\ ComponentsIdle

FetchNext ==
    \/ CallAuthenticate
    \/ CallGetSchedule
    \/ AProbe
    \/ ASchedulePage
    \/ AOauth
    \/ ALoginPage
    \/ AVerifyLanded
    \/ ASubmit
    \/ AVerifySubmit
    \/ KcGet
    \/ KcFollow
    \/ KcProbe400
    \/ KcVerifyLanded
    \/ KcPost
    \/ KcProbePost400
    \/ KcRefresh
    \/ KcVerifyRefresh
    \/ KcVerifyHist
    \/ GApi
    \/ GPage
    \/ GRetryDenied
    \/ GRetryLogin

FetchSpec == FetchInit /\ [][FetchNext]_vars

\* C11: no failure inside the fetcher reaches its caller: a finished
\* authenticate() has returned True or False and a finished
\* get_schedule_for_date() a schedule or None, whatever the portal answered
\* and whichever request raised
C11_NeverRaises ==
    [][(fpc # "idle" /\ fpc' = "idle")
          => IF fcaller = "top"
             THEN fresult' \in {"True", "False"}
             ELSE fresult' \in {"schedule", "None"}]_vars

\* a request inside the second authenticate() of a schedule request raised
\* and get_schedule_for_date returned None
C11_Witness ==
    /\ fpc = "idle"
    /\ nAuth = 2
    /\ lastResp = Exc
    /\ "login_page" \in flog
    /\ fresult = "None"

\* the probe is answered 200 on the schedule page itself, with schedule
\* markup in the body
GoodProbe(r) ==
    /\ r.status = 200
    /\ r.url = "my_schedule"
    /\ r.page = "schedule"

\* C19: when the probe is answered 200 with schedule markup on the
\* schedule URL, authenticate() sets is_authenticated and returns True to
\* its caller after that one request: no authorization endpoint has been
\* fetched and no credentials have been submitted
C19_ProbeShortCircuit ==
    [][(fpc = "a_probe" /\ GoodProbe(lastResp'))
          => /\ is_authenticated'
             /\ flog' = {"probe"}
             /\ fcaller = "top" => (fpc' = "idle" /\ fresult' = "True")
             /\ fcaller = "g_entry" => fpc' = "g_api"
             /\ fcaller = "g_denied" => fpc' = "g_retry_denied"
             /\ fcaller = "g_login" => fpc' = "g_retry_login"]_vars

\* authenticate() called at startup has returned True on the probe alone
C19_Witness ==
    /\ fpc = "idle"
    /\ fresult = "True"
    /\ GoodProbe(lastResp)
    /\ flog = {"probe"}
    /\ is_authenticated

\* C20: once the portal has turned away a schedule request made while
\* is_authenticated was True (401, 403 or a redirect to the identity
\* provider), is_authenticated is False until a login succeeds; so it is
\* False when get_schedule_for_date returns None after a failed login
C20_LeavesAuthenticated == denied => ~is_authenticated

\* =========================================================================
\* The schedule command on its own: message_handler and
\* main.get_schedule_for_date with the date text, the clock and the static
\* schedule document spelled out
\* =========================================================================
MaxClasses == 2       \* class records in the list of one day

\* int(s) for the parts a date text is made of: an integer that fits a C
\* int, an integer that does not, or no integer at all (ValueError)
IntOf(tok) ==
    CASE tok = "1"  -> [kind |-> "int", val |-> 1]
      [] tok = "9"  -> [kind |-> "int", val |-> 9]
      [] tok = "09" -> [kind |-> "int", val |-> 9]
      [] tok = "02" -> [kind |-> "int", val |-> 2]
      [] tok = "12" -> [kind |-> "int", val |-> 12]
      [] tok = "13" -> [kind |-> "int", val |-> 13]
      [] tok = "25" -> [kind |-> "int", val |-> 25]
      [] tok = "31" -> [kind |-> "int", val |-> 31]
      [] tok = "2026" -> [kind |-> "int", val |-> 2026]
      [] tok = "99999999999" -> [kind |-> "huge", val |-> 0]
      [] OTHER -> [kind |-> "nan", val |-> 0]

\* the texts a user sends, as date_str.split('.') sees them: dates and
\* texts that are no date (Telegram delivers no empty text)
DateStrs ==
    { <<"9", "02">>, <<"09", "02">>, <<"25", "12">>,
      <<"31", "02">>, <<"25", "13">>, <<"ab", "cd">>, <<"25">>,
      <<"25", "12", "2026">>, <<"99999999999", "1">> }

\* the days of a month in 2025, 2026 and 2027, none of them a leap year
DaysInMonth(m) ==
    CASE m = 2 -> 28
      [] m \in {4, 6, 9, 11} -> 30
      [] OTHER -> 31

RECURSIVE DaysBefore(_)
DaysBefore(m) == IF m = 1 THEN 0 ELSE DaysBefore(m - 1) + DaysInMonth(m - 1)

\* the moments get_moscow_time() can give: 25 December 2025, 9 February 2026
Nows ==
    { [year |-> 2025, month |-> 12, day |-> 25],
      [year |-> 2026, month |-> 2, day |-> 9] }

\* day, month = map(int, date_str.split('.')) and datetime(year, month,
\* day): the date, or the exception raised. map is lazy, so with one or
\* three parts the unpacking raises ValueError whatever the parts are;
\* datetime raises OverflowError for an argument beyond a C int before it
\* looks at the ranges
ParseDate(parts, year) ==
    IF Len(parts) # 2 THEN [exc |-> "ValueError", date |-> NoDate]
    ELSE LET d == IntOf(parts[1])
             m == IntOf(parts[2])
         IN IF d.kind = "nan" \/ m.kind = "nan"
            THEN [exc |-> "ValueError", date |-> NoDate]
            ELSE IF d.kind = "huge" \/ m.kind = "huge"
            THEN [exc |-> "OverflowError", date |-> NoDate]
            ELSE IF m.val \notin 1..12
            THEN [exc |-> "ValueError", date |-> NoDate]
            ELSE IF d.val \notin 1..DaysInMonth(m.val)
            THEN [exc |-> "ValueError", date |-> NoDate]
            ELSE [exc |-> "none",
                  date |-> [year |-> year, month |-> m.val, day |-> d.val]]

\* get_schedule_for_date() as button_handler calls it for 'today': no
\* date_str
NoText == <<"">>

\* main.get_schedule_for_date, the choice of target_date: a date_str that
\* is None or empty is false and means today
TargetDate(parts, now) ==
    IF parts = NoText THEN [exc |-> "none", date |-> now]
    ELSE ParseDate(parts, now.year)

\* days from the base date of get_current_week_type, Monday 6 October 2025
DaysSinceBase(date) ==
    (date.year - 2025) * 365 + DaysBefore(date.month) + date.day - 1 - 278

\* target_date.weekday(), 0 = Monday
Weekday(date) == DaysSinceBase(date) % 7

get_weekday_name(date) ==
    CASE Weekday(date) = 0 -> "Monday"
      [] Weekday(date) = 1 -> "Tuesday"
      [] Weekday(date) = 2 -> "Wednesday"
      [] Weekday(date) = 3 -> "Thursday"
      [] Weekday(date) = 4 -> "Friday"
      [] Weekday(date) = 5 -> "Saturday"
      [] OTHER -> "Sunday"

\* get_current_week_type(target_date): 2 for an even week, 1 for an odd one
get_current_week_type(date) ==
    LET weeks_since_base == (DaysSinceBase(date) - Weekday(date)) \div 7
    IN IF weeks_since_base % 2 = 0 THEN 2 ELSE 1

\* the items of a day's list: class records with a start and an end time,
\* and a ready-made window item; "-" stands for a key that is absent
ClassRecord(subj, st, en) ==
    [subject |-> subj, start |-> st, end |-> en, window |-> "-"]
WindowItem(w) == [subject |-> "-", start |-> "-", end |-> "-", window |-> w]

Items ==
    { ClassRecord("Math", "09:00", "10:00"),
      ClassRecord("Physics", "10:40", "12:00"),
      ClassRecord("History", "10:00", "10:40"),
      ClassRecord("Law", "1O:00", "12:00"),
      WindowItem("10:00-10:40") }

RECURSIVE ListsUpTo(_)
ListsUpTo(n) ==
    IF n = 0 THEN {<<>>}
    ELSE ListsUpTo(n - 1)
           \cup {Append(l, x) : l \in {k \in ListsUpTo(n - 1) : Len(k) = n - 1},
                                x \in Items}

ClassLists == ListsUpTo(MaxClasses)

\* format_class_info(class_item): a window line for an item with the key
\* 'window', otherwise a block with the subject and the time as they stand
\* in the item
format_class_info(class_item) ==
    IF class_item.window # "-"
    THEN [kind |-> "window", subject |-> "-", start |-> "-", end |-> "-",
          window |-> class_item.window]
    ELSE [kind |-> "class", subject |-> class_item.subject,
          start |-> class_item.start, end |-> class_item.end, window |-> "-"]

\* the documents SCHEDULE_JSON can hold, by shape: "weeks" is what the
\* bot reads ({'schedule': [{'week': .., 'days': [{'day': .., 'classes':
\* [..]}]}]}), here with one week and one day; "bydate" is what
\* generate_schedule_by_date.py writes ({"9.02": [..]}), here with one date
DateKeys == {<<9, 2>>, <<25, 12>>}

Docs(shape) ==
    CASE shape = "weeks" ->
           {[key |-> <<0, 0>>, week |-> w, day |-> d, classes |-> c] :
               w \in {1, 2}, d \in {"Monday", "Thursday"}, c \in ClassLists}
      [] shape = "bydate" ->
           {[key |-> k, week |-> 0, day |-> "none", classes |-> c] :
               k \in DateKeys, c \in ClassLists}
      [] OTHER -> {NoDoc}

\* main.get_schedule_for_date from "current_week_type = ..." on: the loop
\* over SCHEDULE_DATA['schedule']. A document without the key 'schedule'
\* raises KeyError, which the last except clause answers
StaticSchedule(shape, doc, date) ==
    IF shape # "weeks" THEN Reply("error", <<>>)
    ELSE IF doc.week = get_current_week_type(date) /\ doc.day = get_weekday_name(date)
         THEN IF doc.classes = <<>>
              THEN Reply("day_off", <<>>)
              ELSE Reply("schedule",
                         [i \in 1..Len(doc.classes) |-> format_class_info(doc.classes[i])])
         ELSE Reply("not_found", <<>>)

\* main.get_schedule_for_date(text) at the moment now of the clock; in
\* live mode the fetcher answers fres
ScheduleFor(text, now, fres) ==
    LET t == TargetDate(text, now)
        kind == get_schedule_for_date(t.exc, schedule_fetcher, fres, SCHEDULE_DATA)
    IN /\ date_str' = text
       /\ target_date' = t.date
       /\ scalls' = IF t.exc = "none" /\ schedule_fetcher THEN 1 ELSE 0
       /\ sreply' = IF kind = "static_classes"
                    THEN StaticSchedule(SCHEDULE_DATA, schedule_doc, t.date)
                    ELSE Reply(kind, <<>>)

\* what the fetcher can answer: classes, an empty day, or None
FetcherResults == {"classes", "empty", "None"}

\* message_handler: get_schedule_for_date(update.message.text.strip())
\* for one text message
MessageHandler ==
    /\ \E text \in DateStrs, now \in Nows, fres \in FetcherResults :
         ScheduleFor(text, now, fres)
    /\ UNCHANGED <<serverVars, parseVars, procVars, fetchVars, userVars, schedule_fetcher, SCHEDULE_DATA,
                   is_authenticated, schedule_doc>>

\* button_handler, 'today': get_schedule_for_date()
TodayCommand ==
    /\ \E now \in Nows, fres \in FetcherResults :
         ScheduleFor(NoText, now, fres)
    /\ UNCHANGED <<serverVars, parseVars, procVars, fetchVars, userVars, schedule_fetcher, SCHEDULE_DATA,
                   is_authenticated, schedule_doc>>

\* the bot serves: with the fetcher, and then load_schedule has left
\* SCHEDULE_DATA unset, or without it and with a document from SCHEDULE_JSON
SchedInit ==
    /\ QuietServer
    /\ FetchIdle
    /\ UsersIdle
    /\ ParseIdle
    /\ ProcIdle
    /\ schedule_fetcher \in BOOLEAN
    /\ env = [token |-> TRUE, creds |-> schedule_fetcher,
              sched |-> IF schedule_fetcher THEN "absent" ELSE "classes"]
    /\ is_authenticated = FALSE
    /\ SCHEDULE_DATA \in (IF schedule_fetcher THEN {"None"} ELSE {"weeks", "bydate"})
    /\ schedule_doc \in Docs(SCHEDULE_DATA)
    /\ date_str = <<>>
    /\ target_date = NoDate
    /\ sreply = NoReply
    /\ scalls = 0

SchedNext == MessageHandler \/ TodayCommand

SchedSpec == SchedInit /\ [][SchedNext]_vars

\* a day has been put together from the list of the static document
Assembled ==
    /\ ~schedule_fetcher
    /\ SCHEDULE_DATA = "weeks"
    /\ sreply.kind \in {"schedule", "day_off"}

IsClass(x) == x.window = "-"
IsClassBlock(b) == b.kind = "class"
Subjects(seq) == [i \in 1..Len(seq) |-> seq[i].subject]
Kinds(seq) == [i \in 1..Len(seq) |-> seq[i].kind]

\* C12: in static mode with a document keyed by dates D.MM, a request for
\* the date of a key is answered from the list under that key: "day off"
\* for an empty list, otherwise one class block per class record
C12_StaticByDate ==
    ( /\ ~schedule_fetcher
      /\ SCHEDULE_DATA = "bydate"
      /\ target_date # NoDate
      /\ schedule_doc.key = <<target_date.day, target_date.month>> )
       => IF schedule_doc.classes = <<>>
          THEN sreply.kind = "day_off"
          ELSE /\ sreply.kind = "schedule"
               /\ Len(SelectSeq(sreply.blocks, IsClassBlock))
                     = Len(SelectSeq(schedule_doc.classes, IsClass))

\* a time read strictly as HH:MM, in minutes; -1 for a text that is none
Minutes(t) ==
    CASE t = "09:00" -> 540
      [] t = "10:00" -> 600
      [] t = "10:40" -> 640
      [] t = "12:00" -> 720
      [] OTHER -> -1

ValidTimes(x) == Minutes(x.start) >= 0 /\ Minutes(x.end) >= 0

\* class records with valid times, each starting no earlier than the one
\* before it ends
InOrder(l) ==
    /\ \A i \in 1..Len(l) : IsClass(l[i]) /\ ValidTimes(l[i])
    /\ \A i \in 1..Len(l) - 1 : Minutes(l[i].end) <= Minutes(l[i + 1].start)

\* the kinds of the entries of a day built from such a list: a window
\* between two classes exactly when more than 30 minutes lie between them
RECURSIVE KindsWithWindows(_)
KindsWithWindows(l) ==
    IF Len(l) <= 1 THEN [i \in 1..Len(l) |-> "class"]
    ELSE <<"class">>
           \o (IF Minutes(l[2].start) - Minutes(l[1].end) > 30
               THEN <<"window">> ELSE <<>>)
           \o KindsWithWindows(Tail(l))

\* C13: a day built from a list of class records has a window entry
\* between two consecutive classes exactly when the gap between them is
\* more than 30 minutes, and no window entry anywhere else
C13_WindowsInGaps ==
    (Assembled /\ InOrder(schedule_doc.classes))
       => Kinds(sreply.blocks) = KindsWithWindows(schedule_doc.classes)

\* the records of a list in ascending order of start time
RECURSIVE InsertByStart(_, _)
InsertByStart(x, l) ==
    IF l = <<>> THEN <<x>>
    ELSE IF Minutes(x.start) <= Minutes(Head(l).start) THEN <<x>> \o l
    ELSE <<Head(l)>> \o InsertByStart(x, Tail(l))

RECURSIVE SortByStart(_)
SortByStart(l) ==
    IF l = <<>> THEN <<>> ELSE InsertByStart(Head(l), SortByStart(Tail(l)))

\* C14: the class blocks of a day built from a list of class records are
\* the records with a valid start and end time, in ascending order of
\* start time; a record with an invalid time is left out
C14_InvalidTimesDropped ==
    (Assembled /\ \A i \in 1..Len(schedule_doc.classes) : IsClass(schedule_doc.classes[i]))
       => Subjects(SelectSeq(sreply.blocks, IsClassBlock))
             = Subjects(SortByStart(SelectSeq(schedule_doc.classes, ValidTimes)))

\* a text that names a day and a month of the current year
IsDayMonth(parts) ==
    /\ Len(parts) = 2
    /\ IntOf(parts[1]).kind = "int"
    /\ IntOf(parts[2]).kind = "int"
    /\ IntOf(parts[2]).val \in 1..12
    /\ IntOf(parts[1]).val \in 1..DaysInMonth(IntOf(parts[2]).val)

\* C15: a text message that is no valid day.month pair is answered with
\* the date-format message, in live and in static mode, and the fetcher is
\* not called for it
C15_BadDateGuided ==
    (date_str \notin {<<>>, NoText} /\ ~IsDayMonth(date_str))
       => (sreply.kind = "format_error" /\ scalls = 0)

\* =========================================================================
\* The user registry on its own: load_users, save_users, add_user and the
\* /start handler, with reads and writes of bot_users.pkl that can fail
\* =========================================================================
MaxUsers == 3         \* user ids that send /start

UserIds == 1..MaxUsers

\* the elements of a set of user ids one after the other, smallest first
RECURSIVE Ascending(_)
Ascending(t) ==
    IF t = {} THEN <<>>
    ELSE LET m == CHOOSE x \in t : \A y \in t : x <= y
         IN <<m>> \o Ascending(t \ {m})

\* variant: a dump that loses the last element written
pickle_dump_short(s) == SubSeq(Ascending(s), 1, Cardinality(s) - 1)

\* pickle.dump(users, f): the bytes written for a set, here its elements
\* one after the other
pickle_dump(s) == Ascending(s)

\* pickle.load(f): the set the bytes stand for
pickle_load(data) == {data[i] : i \in 1..Len(data)}

\* variant: load_users() without its except clause
LoadUsersNoExcept == [exc |-> TRUE, set |-> {}]

\* load_users(): except Exception returns set()
LoadUsersExcept == [exc |-> FALSE, set |-> {}]

\* load_users(): set() without the file; otherwise the set unpickled from
\* it; a read that fails (fault) and bytes that are no pickle raise inside
\* the try block
load_users(file, fault) ==
    IF file.state = "absent" THEN [exc |-> FALSE, set |-> {}]
    ELSE IF fault \/ file.state = "corrupt" THEN LoadUsersExcept
    ELSE [exc |-> FALSE, set |-> pickle_load(file.data)]

\* how the read of load_users went
ReadOutcome(file, fault) ==
    IF file.state = "absent" THEN "absent"
    ELSE IF fault \/ file.state = "corrupt" THEN "failed"
    ELSE "ok"

\* the ways a write can go: it succeeds; open(USERS_FILE, 'wb') raises and
\* the file stays as it was; or the file is opened, which empties it, and
\* pickle.dump raises
WriteOutcomes == {"ok", "open_fails", "dump_fails"}

\* the file after open(USERS_FILE, 'wb') and pickle.dump(users, f)
FileAfterWrite(file, s, w) ==
    CASE w = "ok"         -> File("pickle", pickle_dump(s))
      [] w = "open_fails" -> file
      [] OTHER            -> File("corrupt", <<>>)

\* variant: save_users() without its except clause
SaveUsersNoExcept(w) == w # "ok"

\* save_users(): whether an exception leaves the function; except
\* Exception only logs
SaveUsersExcept(w) == FALSE

\* /start arrives: start() reads the user id and calls add_user
StartCommand ==
    /\ upc = "idle"
    /\ \E u \in UserIds : uid' = u
    /\ upc' = "load"
    /\ users' = {}
    /\ UNCHANGED <<serverVars, parseVars, procVars, fetchVars, schedVars, schedule_fetcher, SCHEDULE_DATA,
                   is_authenticated, users_file, persisted, lastSave, uread>>

\* add_user: users = load_users()
LoadUsers ==
    /\ upc = "load"
    /\ \E fault \in BOOLEAN :
         LET r == load_users(users_file, fault)
         IN /\ uread' = ReadOutcome(users_file, fault)
            /\ users' = r.set
            /\ upc' = IF r.exc THEN "raised" ELSE "save"
    /\ UNCHANGED <<serverVars, parseVars, procVars, fetchVars, schedVars, schedule_fetcher, SCHEDULE_DATA,
                   is_authenticated, users_file, uid, persisted, lastSave>>

\* add_user: users.add(user_id); save_users(users)
SaveUsers ==
    /\ upc = "save"
    /\ \E w \in WriteOutcomes :
         LET s == users \cup {uid}
         IN /\ users' = s
            /\ users_file' = FileAfterWrite(users_file, s, w)
            /\ lastSave' = [set |-> s, write |-> w]
            /\ persisted' = IF w = "ok" THEN persisted \cup s ELSE persisted
            /\ upc' = IF SaveUsersExcept(w) THEN "raised" ELSE "reply"
    /\ UNCHANGED <<serverVars, parseVars, procVars, fetchVars, schedVars, schedule_fetcher, SCHEDULE_DATA,
                   is_authenticated, uid, uread>>

\* start(): update.message.reply_text(...) with the menu
StartReply ==
    /\ upc = "reply"
    /\ upc' = "idle"
    /\ UNCHANGED <<serverVars, parseVars, procVars, fetchVars, schedVars, schedule_fetcher, SCHEDULE_DATA,
                   is_authenticated, users_file, uid, users, persisted, lastSave, uread>>

UsersInit ==
    /\ QuietServer
    /\ env = [token |-> TRUE, creds |-> TRUE, sched |-> "absent"]
    /\ schedule_fetcher = TRUE
    /\ SCHEDULE_DATA = "None"
    /\ is_authenticated = FALSE
    /\ ComponentsIdle

UsersNext == StartCommand \/ LoadUsers \/ SaveUsers \/ StartReply

UsersSpec == UsersInit /\ [][UsersNext]_vars

\* the user ids the registry file holds
Stored(file) == IF file.state = "pickle" THEN pickle_load(file.data) ELSE {}

\* C16: every user id that a write has ever put into the registry file is
\* in the file, whatever reads and writes have failed since
C16_RegistryMonotone == persisted \subseteq Stored(users_file)

C18_FailuresSwallowed ==
    [][/\ upc' # "raised"
       /\ (upc = "load" /\ uread' = "failed") => (users' = {} /\ upc' = "save")
       /\ (upc = "save" /\ lastSave'.write # "ok") => upc' = "reply"]_vars

\* the read and the write of one /start both failed and the handler is at
\* its reply
C18_Witness ==
    /\ upc = "reply"
    /\ uread = "failed"
    /\ lastSave.write = "dump_fails"

\* ------------------------------------------- the lesson parsers of the fetcher
\* the fixed placeholder texts
NoTime == "time not specified"        \* 'Время не указано'
NoSubject == "subject not specified"  \* 'Предмет не указан'
NoRoom == "room not specified"        \* 'Аудитория не указана'
NoAddress == "address not specified"  \* 'Адрес не указан'

\* a class_info dict
ClassInfo(t, s, r, a, te) ==
    [kind |-> "dict", time |-> t, subject |-> s, room |-> r, address |-> a,
     teacher |-> te]

\* dict.setdefault(key, default) on one key of class_info
SetDefault(v, default) == IF v = "missing" THEN default ELSE v

\* the HTML containers _parse_lesson_element is given, by what they hold:
\* the time div (absent, empty, with time-start and time-end, with plain text),
\* the title div (absent, empty, with text), the teacher div (absent, with a
\* link, with plain text) and the address div (absent, room and building
\* divs, a room div that says only "ауд.", plain text with "ауд. 101" and a
\* street, short plain text)
HtmlElements ==
    [kind : {"html"},
     time : {"absent", "empty", "start_end", "text"},
     title : {"absent", "empty", "text"},
     teacher : {"absent", "link", "text"},
     address : {"absent", "room_building", "room_bare", "text_aud", "text_short"}]

\* the time key after lines 929-942
HtmlTime(e) ==
    CASE e.time = "start_end" -> "09:00-10:30"
      [] e.time = "text" -> "09:00"
      [] OTHER -> "missing"

\* the subject key after lines 945-947: the text of the title div, empty or not
HtmlSubject(e) ==
    CASE e.title = "text" -> "Math"
      [] e.title = "empty" -> ""
      [] OTHER -> "missing"

\* the teacher key after lines 950-961
HtmlTeacher(e) == IF e.teacher = "absent" THEN "missing" ELSE "Ivanov"

\* the room key after lines 964-979
HtmlRoom(e) ==
    CASE e.address \in {"room_building", "text_aud"} -> "101"
      [] e.address = "room_bare" -> NoRoom
      [] OTHER -> "missing"

\* the address key after lines 981-991
HtmlAddress(e) ==
    CASE e.address = "room_building" -> "Kronverksky 49"
      [] e.address = "text_aud" -> "Kronverksky 49"
      [] OTHER -> "missing"

\* the test of lines 1000-1001: 'subject' in class_info and it is not the
\* placeholder
HtmlKeep(info) == info.subject # "missing" /\ info.subject # NoSubject

\* ITMOScheduleFetcher._parse_lesson_element(element)
parse_lesson_element(e) ==
    LET info == ClassInfo(SetDefault(HtmlTime(e), NoTime),
                          SetDefault(HtmlSubject(e), NoSubject),
                          SetDefault(HtmlRoom(e), NoRoom),
                          SetDefault(HtmlAddress(e), NoAddress),
                          HtmlTeacher(e))
    IN IF HtmlKeep(info) THEN info ELSE NoClassInfo

\* the JSON items _extract_class_info_from_api is given, by what they hold:
\* a time key (absent, a string, an object with start and end, with start
\* only, with neither), a subject key, a room key, an address key and a
\* teacher key (absent, a string, an object with a name, an object without);
\* or something that is no object at all
ApiItems ==
    [kind : {"json"},
     time : {"absent", "str", "start_end", "start", "neither"},
     subject : BOOLEAN,
     room : BOOLEAN,
     address : BOOLEAN,
     teacher : {"absent", "str", "named", "unnamed"}]
        \cup {[kind |-> "number"]}

\* the time key after lines 1063-1076
ApiTime(i) ==
    CASE i.time = "str" -> "09:00"
      [] i.time = "start_end" -> "09:00-10:30"
      [] i.time = "start" -> "09:00"
      [] OTHER -> "missing"

\* the teacher key after lines 1093-1104
ApiTeacher(i) == IF i.teacher \in {"str", "named"} THEN "Ivanov" ELSE "missing"

\* the test of line 1106
ApiKeep(t, s) == s # "missing" \/ t # "missing"

\* what the except clause of lines 1115-1117 returns
ExtractExcept == NoClassInfo

\* ITMOScheduleFetcher._extract_class_info_from_api(item)
extract_class_info_from_api(i) ==
    IF i.kind # "json" THEN ExtractExcept
    ELSE LET t == ApiTime(i)
             s == IF i.subject THEN "Math" ELSE "missing"
         IN IF ApiKeep(t, s)
            THEN ClassInfo(SetDefault(t, NoTime), SetDefault(s, NoSubject),
                           SetDefault(IF i.room THEN "101" ELSE "missing", NoRoom),
                           SetDefault(IF i.address THEN "Kronverksky 49" ELSE "missing",
                                      NoAddress),
                           ApiTeacher(i))
            ELSE NoClassInfo

\* _parse_html_schedule hands one container to the container parser
ParseLessonElement ==
    /\ \E e \in HtmlElements :
         /\ element' = e
         /\ class_info' = parse_lesson_element(e)
    /\ parser' = "html"
    /\ UNCHANGED <<serverVars, procVars, fetchVars, schedVars, userVars, schedule_fetcher,
                   SCHEDULE_DATA, is_authenticated>>

\* _parse_api_schedule hands one item to the item parser
ExtractClassInfoFromApi ==
    /\ \E i \in ApiItems :
         /\ element' = i
         /\ class_info' = extract_class_info_from_api(i)
    /\ parser' = "json"
    /\ UNCHANGED <<serverVars, procVars, fetchVars, schedVars, userVars, schedule_fetcher,
                   SCHEDULE_DATA, is_authenticated>>

ParseInit ==
    /\ QuietServer
    /\ env = [token |-> TRUE, creds |-> TRUE, sched |-> "absent"]
    /\ schedule_fetcher = TRUE
    /\ SCHEDULE_DATA = "None"
    /\ is_authenticated = TRUE
    /\ ComponentsIdle

ParseNext == ParseLessonElement \/ ExtractClassInfoFromApi

ParseSpec == ParseInit /\ [][ParseNext]_vars

\* the candidate shows a subject / a time the parser can recognise
HasSubject(e) ==
    IF e.kind = "html" THEN e.title = "text" ELSE e.kind = "json" /\ e.subject
HasTime(e) ==
    IF e.kind = "html" THEN e.time \in {"start_end", "text"}
    ELSE e.kind = "json" /\ e.time \in {"str", "start_end", "start"}

\* C21: a candidate is discarded exactly when it has neither a subject nor a
\* time, and a candidate that is kept has a text or the placeholder under
\* each of time, subject, room and address
C21_DiscardedIffBothMissing ==
    parser # "none" =>
        /\ (class_info.kind = "None") <=> (~HasSubject(element) /\ ~HasTime(element))
        /\ class_info.kind = "dict" =>
              /\ class_info.time = (IF HasTime(element) THEN class_info.time ELSE NoTime)
              /\ class_info.subject = (IF HasSubject(element) THEN "Math" ELSE NoSubject)
              /\ class_info.room # "missing"
              /\ class_info.address # "missing"

\* ------------------------------ the worker under any sequence of API calls
\* variant: a start that clears the shutdown flag for the new thread
start_update_processor_clears ==
    /\ processing_thread' = NewThread
    /\ wpc' = [wpc EXCEPT ![NewThread] = "check"]
    /\ lateStart' = lateStart
    /\ shutdown_event' = FALSE

\* start_update_processor(): a new thread is created and started, whatever
\* processing_thread and shutdown_event hold; the flag is left as it is
start_update_processor ==
    /\ processing_thread' = NewThread
    /\ wpc' = [wpc EXCEPT ![NewThread] = "check"]
    /\ lateStart' = IF shutdown_event THEN lateStart \cup {NewThread} ELSE lateStart
    /\ UNCHANGED shutdown_event

\* a caller calls initialize_telegram_app(application) with an application
\* that has or has not been initialized
CallInitializeTelegramApp ==
    /\ pc = "serving"
    /\ \E t \in Threads : wpc[t] = "unborn"
    /\ \E application \in {"initialized", "uninitialized"} :
         /\ telegram_application' = application
         /\ IF application # "initialized"
            THEN UNCHANGED <<processing_thread, wpc, lateStart, shutdown_event>>
            ELSE start_update_processor
    /\ UNCHANGED <<fetchVars, schedVars, userVars, parseVars, spc, susers, entry, env,
                   pc, schedule_fetcher, SCHEDULE_DATA, cur,
                   update_queue, queue_lock, bot_status, httpVars, histVars,
                   regResult, botVars>>

\* a caller calls start_update_processor() itself
CallStartUpdateProcessor ==
    /\ pc = "serving"
    /\ \E t \in Threads : wpc[t] = "unborn"
    /\ start_update_processor
    /\ UNCHANGED <<fetchVars, schedVars, userVars, parseVars, spc, susers, entry, env,
                   pc, startupVars, cur, update_queue, queue_lock,
                   bot_status, httpVars, histVars, regResult, botVars>>

\* a caller calls stop_update_processor(); the call returns when the join
\* does, and the caller goes on
CallStopUpdateProcessor ==
    /\ pc = "serving"
    /\ ProcessorAlive
    /\ shutdown_event' = TRUE
    /\ UNCHANGED <<auxVars, entry, env, pc, startupVars, processing_thread, workerVars,
                   update_queue, queue_lock, bot_status, httpVars, histVars,
                   regResult, botVars>>

\* web_server imported by a caller that serves requests; nothing started yet
ProcInit ==
    /\ entry = "web_server"
    /\ env = [token |-> TRUE, creds |-> FALSE, sched |-> "classes"]
    /\ pc = "serving"
    /\ schedule_fetcher = FALSE
    /\ is_authenticated = FALSE
    /\ SCHEDULE_DATA = "classes"
    /\ telegram_application = "None"
    /\ processing_thread = 0
    /\ wpc = [t \in Threads |-> "unborn"]
    /\ cur = [t \in Threads |-> NoUpdate]
    /\ shutdown_event = FALSE
    /\ update_queue = <<>>
    /\ queue_lock = NoOwner
    /\ bot_status = [is_running |-> TRUE, webhook_set |-> FALSE]
    /\ hpc = [h \in Handlers |-> "idle"]
    /\ hbody = [h \in Handlers |-> NoUpdate]
    /\ resp = [h \in Handlers |-> 0]
    /\ nreq = 0
    /\ accepted = <<>>
    /\ dispatched = <<>>
    /\ failed = {}
    /\ discarded = {}
    /\ afterStop = 0
    /\ regResult = "none"
    /\ fetchRes = "none"
    /\ reply = "none"
    /\ ComponentsIdle

ProcNext ==
    \/ CallInitializeTelegramApp
    \/ CallStartUpdateProcessor
    \/ CallStopUpdateProcessor
    \/ \E t \in Threads : WorkerStep(t)
    \/ \E h \in Handlers : HandlerStep(h)

ProcSpec == ProcInit /\ [][ProcNext]_vars

\* the worker threads that are running process_updates
LiveWorkers == {t \in Threads : ThreadAlive(t)}

\* C22: at every moment at most one worker thread is draining the queue,
\* whatever calls of initialize_telegram_app and start_update_processor
\* have been made
C22_AtMostOneWorker == Cardinality(LiveWorkers) <= 1

\* no worker thread is running process_updates any more
AllExited == LiveWorkers = {}

\* C29: the shutdown flag changes only in stop_update_processor and only to
\* set; a worker started after it was set never gets past the while
\* condition; and once the flag is set and the last worker has exited, what
\* is in the queue is never taken out and nothing more is dispatched
C29_ShutdownIsFinal ==
    [][/\ shutdown_event => shutdown_event'
       /\ shutdown_event' # shutdown_event => ProcessorAlive /\ UNCHANGED workerVars
       /\ \A t \in lateStart' : wpc'[t] \in {"check", "exited"}
       /\ (shutdown_event /\ AllExited)
             => /\ dispatched' = dispatched
                /\ IsPrefix(update_queue, update_queue')
                /\ \A t \in Threads : wpc[t] = "exited" => wpc'[t] = "exited"]_vars

\* a worker that was started after the stop has exited, and an update
\* accepted before the stop is still in the queue
C29_Witness ==
    /\ shutdown_event
    /\ \E t \in lateStart : wpc[t] = "exited"
    /\ AllExited
    /\ update_queue # <<>>

\* ------------------------------------------- the queue lock and the worker
\* C23: the worker holds queue_lock exactly while it is inside the with
\* block that pops one item; so while every worker is dispatching, sleeping
\* or testing, a request thread waiting for the lock can take it, unless
\* another request thread has it
C23_LockOnlyWhilePopping ==
    /\ \A t \in Threads : (queue_lock = <<"worker", t>>) <=> (wpc[t] = "pop")
    /\ \A h \in Handlers :
          (/\ hpc[h] = "acquire"
           /\ \A g \in Handlers : hpc[g] # "append")
             => (ENABLED HandlerAcquire(h) \/ \E t \in Threads : wpc[t] = "pop")

\* a request thread holds the lock and is about to append while the worker
\* is in the middle of dispatching an earlier update
C23_Witness ==
    \E h \in Handlers, t \in Threads :
        /\ wpc[t] = "dispatch"
        /\ queue_lock = <<"handler", h>>
        /\ hpc[h] = "append"
        /\ cur[t].did < hbody[h].did

\* C28: in the program main() starts, a worker thread runs only while
\* telegram_application is set and initialized, and no update the worker
\* popped has been dropped for want of the application
C28_WorkerHasApplication ==
    entry = "main" =>
        /\ \A t \in Threads : ThreadAlive(t) => telegram_application = "initialized"
        /\ discarded = {}

\* the worker main() started has popped an update and is dispatching it
C28_Witness ==
    /\ entry = "main"
    /\ \E t \in Threads : wpc[t] = "dispatch" /\ cur[t].kind = "update"
    /\ dispatched # <<>>
    /\ telegram_application = "initialized"

\* ------------------------------------- the fetcher's calls always come back
\* every request of the fetcher is made with a timeout, so each step of a
\* call in progress is taken: the answer arrives or the request raises
FairFetchSpec == FetchSpec /\ WF_vars(FetchNext)


\* how often x occurs in the sequence s
Occurs(s, x) == Cardinality({i \in 1..Len(s) : s[i] = x})

\* one call of the fetcher's get_schedule_for_date has called authenticate()
\* at most once from each of its three call sites, has asked /api/schedule
\* at most once, and has asked for the schedule page at most once plus once
\* for each re-authentication
BoundedCall ==
    /\ nAuth <= 3
    /\ nAuth = Occurs(glog, "auth_entry") + Occurs(glog, "auth_denied")
                 + Occurs(glog, "auth_login")
    /\ \A x \in {"auth_entry", "auth_denied", "auth_login", "api"} : Occurs(glog, x) <= 1
    /\ Occurs(glog, "page") <= 1 + Occurs(glog, "auth_denied") + Occurs(glog, "auth_login")

\* the fetcher is inside a call of get_schedule_for_date
InGetSchedule == fpc # "idle" /\ fcaller # "top"

\* C30: a call of the fetcher's get_schedule_for_date makes at most three
\* authenticate() calls and repeats the schedule request at most once per
\* re-authentication, and it always comes back
C30_BoundedNoRetryLoop == []BoundedCall /\ (InGetSchedule ~> fpc = "idle")

\* a call that authenticated on entry, after an access-denied answer and
\* after a login page, and returned the schedule of the third page request
C30_Witness ==
    /\ fpc = "idle"
    /\ nAuth = 3
    /\ Occurs(glog, "page") = 3
    /\ fresult = "schedule"

\* ------------------------------------------------- the login paths
\* the steps of authenticate() and of the direct login that send the login
\* and the password
CredentialPosts == {"submit", "kc_post"}

\* the login page in hand reaches the search for a form, finds none, and
\* the scripts do not give both tab_id and session_code
ScanFindsNoIds(r) ==
    /\ r.status = 200
    /\ ~HasError(r.url)
    /\ ~(HasMy(r.url) /\ HasSchedule(r.url))
    /\ r.page \in {"script_partial", "plain"}

\* the login page has been looked at and the schedule page did not show a
\* session that is already logged in
LoginPageJudged ==
    \/ fpc = "a_login_page" /\ lastResp' # Exc /\ fpc' # "a_verify_landed"
    \/ /\ fpc = "a_verify_landed"
       /\ lastResp' # Exc
       /\ ~(lastResp'.status = 200 /\ HasSchedule(lastResp'.url))

\* C25: the direct login is entered only from a login page without a form
\* whose scripts give both tab_id and session_code; credentials are posted
\* by the direct login only after that; and a login page without a form
\* that lacks one of the two makes authenticate() return False with no
\* credentials sent
C25_ScriptPathGuarded ==
    [][/\ (fpc # "kc_get" /\ fpc' = "kc_get")
             => (fpc \in {"a_login_page", "a_verify_landed"} /\ fresp'.page = "script")
       /\ "kc_post" \in flog' => "kc_get" \in flog'
       /\ (LoginPageJudged /\ ScanFindsNoIds(fresp'))
             => /\ flog' \cap (CredentialPosts \cup {"kc_get"}) = {}
                /\ fpc' = "idle"
                /\ fresult' \in {"False", "None"}
                /\ is_authenticated' = is_authenticated]_vars

\* authenticate() has returned False on a login page that has no form and
\* carries tab_id without session_code; nothing was posted
C25_Witness ==
    /\ fpc = "idle"
    /\ fresult = "False"
    /\ lastResp.page = "script_partial"
    /\ lastResp.status = 200
    /\ flog = {"probe", "schedule", "login_page"}

\* the answer to a submission that the direct login takes for a possibly
\* stale denial and verifies with a request for the schedule page: 400
SubmissionDenied(r) == r # Exc /\ r.status = 400

\* C26: on every path that posts the credentials, an answer that denies
\* access is followed by a request for the schedule page before failure is
\* reported
C26_DenialIsVerified ==
    [][\A path \in {"a_submit", "kc_post"} :
          (fpc = path /\ SubmissionDenied(lastResp'))
             => fpc' \in {"a_verify_submit", "kc_probe_post400"}]_vars

\* the steps that ask for the schedule page
ScheduleRequests ==
    {"a_probe", "a_verify_landed", "a_verify_submit", "kc_probe400",
     "kc_verify_landed", "kc_probe_post400", "kc_verify_refresh", "kc_verify_hist"}

\* C27: is_authenticated becomes True only in a step that asked for the
\* schedule page and was answered 200 with a final URL on my.itmo.ru and
\* not on id.itmo.ru
C27_OnlyAfterSchedule200 ==
    [][(~is_authenticated /\ is_authenticated')
          => /\ fpc \in ScheduleRequests
             /\ lastResp'.status = 200
             /\ HasMy(lastResp'.url)
             /\ ~HasId(lastResp'.url)]_vars

\* =========================================================================
\* The /start handler as the worker runs it: the updates that POST /webhook
\* puts into the queue are dispatched to start(), which registers the
\* sender with add_user (load_users, users.add, save_users)
\* =========================================================================
\* the user who sent an update (each delivery comes from another user)
Sender(u) == u.did

\* variant: add_user that writes the new id without the ids it loaded
add_user_forgets(users_loaded, user_id) == {user_id}

\* add_user: users.add(user_id), the set given to save_users
add_user(users_loaded, user_id) == users_loaded \cup {user_id}

\* process_update has called start(); add_user: users = load_users()
StartLoad(t) ==
    /\ wpc[t] = "dispatch"
    /\ cur[t].cmd = "start"
    /\ spc[t] = "idle"
    /\ susers' = [susers EXCEPT ![t] = Stored(users_file)]
    /\ spc' = [spc EXCEPT ![t] = "save"]
    /\ UNCHANGED <<fetchVars, schedVars, parseVars, lateStart, userVars, entry, env, pc,
                   startupVars, processing_thread, workerVars, shutdown_event,
                   update_queue, queue_lock, bot_status, httpVars, histVars,
                   regResult, botVars>>

\* add_user: users.add(user_id); save_users(users)
StartSave(t) ==
    /\ spc[t] = "save"
    /\ LET s == add_user(susers[t], Sender(cur[t]))
       IN /\ susers' = [susers EXCEPT ![t] = s]
          /\ users_file' = File("pickle", pickle_dump(s))
          /\ persisted' = persisted \cup s
    /\ spc' = [spc EXCEPT ![t] = "reply"]
    /\ UNCHANGED <<fetchVars, schedVars, parseVars, lateStart, upc, uid, users, lastSave,
                   uread, entry, env, pc, startupVars, processing_thread, workerVars,
                   shutdown_event, update_queue, queue_lock, bot_status, httpVars,
                   histVars, regResult, botVars>>

\* start(): reply_text sent; process_update returns to the loop of the
\* worker, which had been waiting for it
StartReplied(t) ==
    /\ spc[t] = "reply"
    /\ spc' = [spc EXCEPT ![t] = "idle"]
    /\ susers' = [susers EXCEPT ![t] = {}]
    /\ wpc' = [wpc EXCEPT ![t] = "check"]
    /\ cur' = [cur EXCEPT ![t] = NoUpdate]
    /\ UNCHANGED <<fetchVars, schedVars, parseVars, lateStart, userVars, entry, env, pc,
                   startupVars, processing_thread, shutdown_event, update_queue,
                   queue_lock, bot_status, httpVars, histVars, regResult, botVars>>

\* a dispatch other than that of /start, as in the server on its own
OtherDispatch(t) ==
    /\ cur[t].cmd # "start"
    /\ WorkerDispatchFail(t) \/ WorkerDispatchDone(t)

\* the steps of a worker thread, with the /start handler in place of the
\* single dispatch step
StartWorkerStep(t) ==
    \/ WorkerCheck(t)
    \/ WorkerAcquire(t)
    \/ WorkerPop(t)
    \/ WorkerSleep(t)
    \/ WorkerBegin(t)
    \/ OtherDispatch(t)
    \/ StartLoad(t)
    \/ StartSave(t)
    \/ StartReplied(t)

\* main() has run: the application is initialized, initialize_telegram_app
\* has started the one worker, the webhook is registered and the server
\* takes requests
StartInit ==
    /\ entry = "main"
    /\ env = [token |-> TRUE, creds |-> FALSE, sched |-> "classes"]
    /\ pc = "serving"
    /\ schedule_fetcher = FALSE
    /\ is_authenticated = FALSE
    /\ SCHEDULE_DATA = "classes"
    /\ telegram_application = "initialized"
    /\ processing_thread = 1
    /\ wpc = [t \in Threads |-> IF t = 1 THEN "check" ELSE "unborn"]
    /\ cur = [t \in Threads |-> NoUpdate]
    /\ shutdown_event = FALSE
    /\ update_queue = <<>>
    /\ queue_lock = NoOwner
    /\ bot_status = [is_running |-> TRUE, webhook_set |-> TRUE]
    /\ hpc = [h \in Handlers |-> "idle"]
    /\ hbody = [h \in Handlers |-> NoUpdate]
    /\ resp = [h \in Handlers |-> 0]
    /\ nreq = 0
    /\ accepted = <<>>
    /\ dispatched = <<>>
    /\ failed = {}
    /\ discarded = {}
    /\ afterStop = 0
    /\ regResult = "ok"
    /\ fetchRes = "none"
    /\ reply = "none"
    /\ ComponentsIdle

StartNext ==
    \/ \E t \in Threads : StartWorkerStep(t)
    \/ \E h \in Handlers : HandlerStep(h)

StartSpec == StartInit /\ [][StartNext]_vars

\* the worker threads whose /start handler has loaded the registry and has
\* not yet saved it
BetweenLoadAndSave == {t \in Threads : spc[t] = "save"}

\* a /start of a user other than the one thread t is registering waits in
\* the queue
OtherStartWaits(t) ==
    \E i \in 1..Len(update_queue) :
       update_queue[i].cmd = "start" /\ Sender(update_queue[i]) # Sender(cur[t])

====
